---- MODULE Spec2Model ----
(***************************************************************************)
(* Model of the diff-to-prompt pipeline of aicommit                        *)
(* (src/lib/diff-parser.ts): parseUnifiedDiff, classifyFiles,              *)
(* truncateDiff and compressDiffs.                                         *)
(*                                                                         *)
(* Representation of text.  A JavaScript string is modelled as the         *)
(* non-empty sequence of its lines (the result of split('\n'); join('\n')  *)
(* is the inverse), and a line as the sequence of its characters.  The     *)
(* empty string is the one-line text << <<>> >>.  The parser model works   *)
(* on characters; the compressor never looks inside a line, so its lines   *)
(* are tagged tuples (<<"line", k>> is the k-th line of a file's diff).    *)
(***************************************************************************)
EXTENDS Integers, Sequences, FiniteSets, Bags, TLC

VARIABLES
    pc,          \* position of the pipeline being exercised
    diffOutput,  \* parseUnifiedDiff: the diff text handed in
    parsed,      \* parseUnifiedDiff: the ParsedDiff returned
    classified,  \* classifyFiles: the ClassifiedFiles returned
    files,       \* compressDiffs: the FileDiff[] argument
    idx,         \* compressDiffs: number of files the for-loop has consumed
    diffs,       \* compressDiffs: the local array diffs
    totalLines,  \* compressDiffs: the local counter totalLines
    output,      \* compressDiffs: the string returned (diffs.join('\n\n'))
    diff,        \* truncateDiff: argument diff
    maxLines,    \* truncateDiff: argument maxLines
    truncated,   \* truncateDiff: the string returned
    semantics,   \* extractSemantics: the SemanticInfo returned
    args,        \* buildPrompt: its arguments
    prompt,      \* buildPrompt: the string returned
    lastIndex,   \* lastIndex of the RegExp objects of EXCLUDED_PATTERNS
    history,     \* the invocations of the pipeline so far: input and prompt
    hasStaged,   \* main: files are staged
    headExists,  \* main: the repository has a HEAD
    exitCode,    \* the code handed to process.exit, NoExit before
    outcome,     \* the message of the last p.outro
    requests,    \* main: generation requests issued
    commits,     \* main: commits made
    pushes,      \* main: pushes made
    finalMessage,\* main: the message the action menu works on
    aicConfig,   \* interactiveRelease: the sections of .aic
    steps,       \* interactiveRelease: the steps run so far
    events,      \* main: what the run has done and shown so far
    aiPromise,   \* main: the state of the promise generateMessage() returned
    panel,       \* main: the state of displayContextPanel
    confirmed,   \* interactiveRelease: the answer to 'Create release ...?'
    currentVersion, \* bumpVersion: argument currentVersion
    releaseType, \* bumpVersion: argument releaseType
    newVersion,  \* bumpVersion: the string returned
    changelogFile, \* writeChangelog: CHANGELOG.md before the call, <<>> when absent
    newEntry,    \* writeChangelog: argument newEntry
    newContent,  \* writeChangelog: the content written
    store,       \* the credential store: the saved SecretsConfig, <<>> when none
    lastRun,     \* the last setup or teardown command and how it ended
    commands,    \* executeSection: config[section]
    dryRun,      \* executeSection: options.dryRun
    cmdIdx,      \* executeSection: commands the for-loop has consumed
    calls,       \* executeSection: callbacks made and processes spawned
    returned     \* executeSection: the value returned

vars == <<pc, diffOutput, parsed, classified, files, idx, diffs, totalLines,
          output, diff, maxLines, truncated, semantics,
          args, prompt, lastIndex, history, hasStaged, headExists, exitCode, outcome,
          requests, commits, pushes, finalMessage, aicConfig, steps,
          events, aiPromise, panel, confirmed, currentVersion, releaseType, newVersion,
          changelogFile, newEntry, newContent, store, lastRun,
          commands, dryRun, cmdIdx, calls, returned>>

parseVars == <<diffOutput, parsed, classified>>
compressVars == <<files, idx, diffs, totalLines, output>>
truncateVars == <<diff, maxLines, truncated>>
semanticVars == <<semantics>>
\* the variables outside diff-parser.ts
promptVars == <<args, prompt>>
pipelineVars == <<lastIndex, history>>
mainVars ==
    <<hasStaged, headExists, exitCode, outcome, requests, commits, pushes, finalMessage,
      events, aiPromise, panel>>
\* what main keeps of the generation and of what it has shown
mainLog == <<events, aiPromise, panel>>
releaseVars == <<aicConfig, steps, confirmed>>
bumpVars == <<currentVersion, releaseType, newVersion>>
changelogVars == <<changelogFile, newEntry, newContent>>
secretVars == <<store, lastRun>>
executeVars == <<commands, dryRun, cmdIdx, calls, returned>>
toolVars == <<bumpVars, changelogVars, secretVars, executeVars>>
otherVars == <<semanticVars, promptVars, pipelineVars, mainVars, releaseVars, toolVars>>

----------------------------------------------------------------------------
(* Bounds of the model *)

\* longest diff text, in lines, handed to parseUnifiedDiff
MaxLines == 3
\* longest diff text, in lines, handed to truncateDiff
MaxDiffLen == 200
\* largest number of over-long files at the head of a compressDiffs input
MaxBig == 30
\* number of further files of any shape after them
MaxTail == 2

----------------------------------------------------------------------------
(* String helpers (String.prototype.startsWith / includes / slice) *)

Min(a, b) == IF a <= b THEN a ELSE b
Max(a, b) == IF a >= b THEN a ELSE b

StartsWith(s, prefix) ==
    /\ Len(s) >= Len(prefix)
    /\ SubSeq(s, 1, Len(prefix)) = prefix

\* needle occurs in s at (1-based) position i
OccursAt(s, needle, i) ==
    /\ i >= 1
    /\ i + Len(needle) - 1 <= Len(s)
    /\ SubSeq(s, i, i + Len(needle) - 1) = needle

\* a single line includes needle
LineIncludes(s, needle) == \E i \in 1..Len(s) : OccursAt(s, needle, i)

\* String.prototype.includes on a text; the needles used hold no newline,
\* so an occurrence lies within one line
Includes(text, needle) == \E k \in 1..Len(text) : LineIncludes(text[k], needle)

\* s.slice(n) on a line, n >= 0
DropChars(s, n) == SubSeq(s, n + 1, Len(s))

----------------------------------------------------------------------------
(* Constants of diff-parser.ts *)

\* RegExp literals are modelled by their literal text and whether they end
\* in '$'; an alternation (png|jpg|...) or optional character (woff2?) is
\* expanded into one pattern per alternative.
Pat(lit, atEnd) == [lit |-> lit, atEnd |-> atEnd]

EXCLUDED_PATTERNS ==
    { Pat(<<"b","u","n",".","l","o","c","k">>, TRUE),
      Pat(<<"p","a","c","k","a","g","e","-","l","o","c","k",".","j","s","o","n">>, TRUE),
      Pat(<<"y","a","r","n",".","l","o","c","k">>, TRUE),
      Pat(<<"p","n","p","m","-","l","o","c","k",".","y","a","m","l">>, TRUE),
      Pat(<<"u","v",".","l","o","c","k">>, TRUE),
      Pat(<<".","p","n","g">>, TRUE), Pat(<<".","j","p","g">>, TRUE), Pat(<<".","j","p","e","g">>, TRUE),
      Pat(<<".","g","i","f">>, TRUE), Pat(<<".","i","c","o">>, TRUE), Pat(<<".","w","e","b","p">>, TRUE),
      Pat(<<".","s","v","g">>, TRUE),
      Pat(<<".","w","o","f","f">>, TRUE), Pat(<<".","w","o","f","f","2">>, TRUE), Pat(<<".","t","t","f">>, TRUE),
      Pat(<<".","e","o","t">>, TRUE), Pat(<<".","o","t","f">>, TRUE),
      Pat(<<".","m","p","3">>, TRUE), Pat(<<".","m","p","4">>, TRUE), Pat(<<".","w","a","v">>, TRUE),
      Pat(<<".","w","e","b","m">>, TRUE),
      Pat(<<".","D","S","_","S","t","o","r","e">>, TRUE),
      Pat(<<".","m","a","p">>, TRUE),
      Pat(<<".","t","s","b","u","i","l","d","i","n","f","o">>, TRUE),
      Pat(<<"d","i","s","t","/">>, FALSE),
      Pat(<<"b","u","i","l","d","/">>, FALSE),
      Pat(<<".","e","x","p","o","/">>, FALSE),
      Pat(<<"n","o","d","e","_","m","o","d","u","l","e","s","/">>, FALSE) }

SUMMARY_ONLY_PATTERNS == {}

MAX_LINES_PER_FILE == 50
MAX_TOTAL_DIFF_LINES == 1500

\* literal texts used by parseUnifiedDiff
DIFF_GIT == <<"d","i","f","f"," ","-","-","g","i","t"," ">>
NEW_FILE_MODE == <<"n","e","w"," ","f","i","l","e"," ","m","o","d","e">>
DELETED_FILE_MODE == <<"d","e","l","e","t","e","d"," ","f","i","l","e"," ","m","o","d","e">>
RENAME_FROM == <<"r","e","n","a","m","e"," ","f","r","o","m">>
A_SLASH == <<"a","/">>
SPACE_B_SLASH == <<" ","b","/">>
PLUS == <<"+">>
PLUS3 == <<"+","+","+">>
MINUS == <<"-">>
MINUS3 == <<"-","-","-">>

\* the value of an absent optional field (oldPath?: string); a path captured
\* by (.+?) is never empty, so the empty sequence is free to stand for it
undefined == <<>>

----------------------------------------------------------------------------
(* parseUnifiedDiff *)

\* diffOutput.split(/^diff --git /m): every line that starts with the marker
\* closes the piece before it (which ends with the newline in front of the
\* marker, hence the trailing empty line) and opens a piece with the rest of
\* that line.
RECURSIVE SplitFrom(_, _, _, _)
SplitFrom(text, k, cur, pieces) ==
    IF k > Len(text) THEN Append(pieces, cur)
    ELSE IF StartsWith(text[k], DIFF_GIT)
         THEN SplitFrom(text, k + 1, <<DropChars(text[k], Len(DIFF_GIT))>>,
                        Append(pieces, Append(cur, <<>>)))
         ELSE SplitFrom(text, k + 1, Append(cur, text[k]), pieces)

SplitDiffGit(text) == SplitFrom(text, 1, <<>>, <<>>)

\* .filter(Boolean) on strings: drops exactly the empty strings
FilterBoolean(pieces) == SelectSeq(pieces, LAMBDA piece : piece # << <<>> >>)

\* headerLine.match(/a\/(.+?) b\/(.+)/): leftmost start of 'a/'; from it the
\* shortest non-empty oldPath followed by ' b/' and at least one more
\* character; newPath runs to the end of the line.
SepPositions(h, i) ==
    { j \in (i + 3)..Len(h) :
        OccursAt(h, SPACE_B_SLASH, j) /\ j + Len(SPACE_B_SLASH) <= Len(h) }

MatchStarts(h) ==
    { i \in 1..Len(h) : OccursAt(h, A_SLASH, i) /\ SepPositions(h, i) # {} }

SetMin(S) == CHOOSE m \in S : \A n \in S : m <= n

pathMatch(h) ==
    IF MatchStarts(h) = {} THEN [matched |-> FALSE, oldPath |-> <<>>, newPath |-> <<>>]
    ELSE LET i == SetMin(MatchStarts(h))
             j == SetMin(SepPositions(h, i))
         IN [matched |-> TRUE,
             oldPath |-> SubSeq(h, i + 2, j - 1),
             newPath |-> SubSeq(h, j + 3, Len(h))]

\* lines 50-59
statusOf(fileDiff, oldPath, newPath) ==
    IF Includes(fileDiff, NEW_FILE_MODE) THEN "added"
    ELSE IF Includes(fileDiff, DELETED_FILE_MODE) THEN "deleted"
    ELSE IF Includes(fileDiff, RENAME_FROM) \/ oldPath # newPath THEN "renamed"
    ELSE "modified"

\* lines 62-67
countedAsAddition(line) == StartsWith(line, PLUS) /\ ~StartsWith(line, PLUS3)
countedAsDeletion(line) == StartsWith(line, MINUS) /\ ~StartsWith(line, MINUS3)

countAdditions(lines) ==
    Cardinality({ k \in 1..Len(lines) : countedAsAddition(lines[k]) })
countDeletions(lines) ==
    Cardinality({ k \in 1..Len(lines) : countedAsDeletion(lines[k]) })

\* `diff --git ${fileDiff}`
WithDiffGit(fileDiff) == <<DIFF_GIT \o fileDiff[1]>> \o Tail(fileDiff)

\* parseBlock with the totals accumulated before the header check, so that a
\* skipped block still adds to them
parseBlockCountsSkipped(acc, fileDiff) ==
    LET lines == fileDiff
        m == pathMatch(lines[1])
        additions == countAdditions(lines)
        deletions == countDeletions(lines)
        status == statusOf(fileDiff, m.oldPath, m.newPath)
    IN [files |-> IF ~m.matched THEN acc.files
                  ELSE Append(acc.files,
                         [additions |-> additions,
                          deletions |-> deletions,
                          diff |-> WithDiffGit(fileDiff),
                          oldPath |-> IF status = "renamed" THEN m.oldPath ELSE undefined,
                          path |-> m.newPath,
                          status |-> status]),
        totalAdditions |-> acc.totalAdditions + additions,
        totalDeletions |-> acc.totalDeletions + deletions]

\* one iteration of the for-loop over fileDiffs (lines 39-80); acc holds
\* files, totalAdditions and totalDeletions
parseBlock(acc, fileDiff) ==
    LET lines == fileDiff
        headerLine == lines[1]
        m == pathMatch(headerLine)
    IN IF ~m.matched THEN acc
       ELSE LET status == statusOf(fileDiff, m.oldPath, m.newPath)
                additions == countAdditions(lines)
                deletions == countDeletions(lines)
            IN [files |-> Append(acc.files,
                         [additions |-> additions,
                          deletions |-> deletions,
                          diff |-> WithDiffGit(fileDiff),
                          oldPath |-> IF status = "renamed" THEN m.oldPath ELSE undefined,
                          path |-> m.newPath,
                          status |-> status]),
                totalAdditions |-> acc.totalAdditions + additions,
                totalDeletions |-> acc.totalDeletions + deletions]

EmptyParsedDiff == [files |-> <<>>, totalAdditions |-> 0, totalDeletions |-> 0]

\* parseBlocks with each record put in front of the earlier ones
RECURSIVE parseBlocksReversed(_, _, _)
parseBlocksReversed(fileDiffs, k, acc) ==
    IF k > Len(fileDiffs) THEN acc
    ELSE LET one == parseBlock(EmptyParsedDiff, fileDiffs[k])
         IN parseBlocksReversed(fileDiffs, k + 1,
              [files |-> one.files \o acc.files,
               totalAdditions |-> acc.totalAdditions + one.totalAdditions,
               totalDeletions |-> acc.totalDeletions + one.totalDeletions])

RECURSIVE parseBlocks(_, _, _)
parseBlocks(fileDiffs, k, acc) ==
    IF k > Len(fileDiffs) THEN acc
    ELSE parseBlocks(fileDiffs, k + 1, parseBlock(acc, fileDiffs[k]))

parseUnifiedDiff(text) ==
    parseBlocks(FilterBoolean(SplitDiffGit(text)), 1, EmptyParsedDiff)

----------------------------------------------------------------------------
(* classifyFiles *)

\* RegExp.prototype.test of one pattern on a path
Test(p, path) ==
    \E i \in 1..Len(path) :
        /\ OccursAt(path, p.lit, i)
        /\ p.atEnd => i + Len(p.lit) - 1 = Len(path)

\* patterns.some((p) => p.test(path))
Some(patterns, path) == \E p \in patterns : Test(p, path)

\* tierOf with the summary-only patterns tested before the exclusion patterns
tierOfSummaryFirst(path, excludedPatterns, summaryPatterns) ==
    IF Some(summaryPatterns, path) THEN "summarized"
    ELSE IF Some(excludedPatterns, path) THEN "excluded"
    ELSE "included"

\* the if / else-if / else of lines 94-100, with the two pattern lists as
\* parameters
tierOf(path, excludedPatterns, summaryPatterns) ==
    IF Some(excludedPatterns, path) THEN "excluded"
    ELSE IF Some(summaryPatterns, path) THEN "summarized"
    ELSE "included"

EmptyClassified == [excluded |-> <<>>, included |-> <<>>, summarized |-> <<>>]

RECURSIVE classifyFrom(_, _, _)
classifyFrom(fs, k, acc) ==
    IF k > Len(fs) THEN acc
    ELSE LET file == fs[k]
             tier == tierOf(file.path, EXCLUDED_PATTERNS, SUMMARY_ONLY_PATTERNS)
         IN classifyFrom(fs, k + 1, [acc EXCEPT ![tier] = Append(@, file)])

\* classifyFiles with the first 'else' missing: an excluded file falls through
\* to the second test and is pushed to included as well
RECURSIVE classifyFromNoElse(_, _, _)
classifyFromNoElse(fs, k, acc) ==
    IF k > Len(fs) THEN acc
    ELSE LET file == fs[k]
             acc1 == IF Some(EXCLUDED_PATTERNS, file.path)
                     THEN [acc EXCEPT !.excluded = Append(@, file)] ELSE acc
             acc2 == IF Some(SUMMARY_ONLY_PATTERNS, file.path)
                     THEN [acc1 EXCEPT !.summarized = Append(@, file)]
                     ELSE [acc1 EXCEPT !.included = Append(@, file)]
         IN classifyFromNoElse(fs, k + 1, acc2)

classifyFilesNoElse(fs) == classifyFromNoElse(fs, 1, EmptyClassified)

classifyFiles(fs) == classifyFrom(fs, 1, EmptyClassified)

----------------------------------------------------------------------------
(* truncateDiff *)

\* Array.prototype.slice(start, end): a negative index counts from the end,
\* and both are clamped to 0..length
RelIndex(k, len) == IF k < 0 THEN Max(len + k, 0) ELSE Min(k, len)
Slice(arr, start, end) ==
    SubSeq(arr, RelIndex(start, Len(arr)) + 1, RelIndex(end, Len(arr)))
SliceFrom(arr, start) == Slice(arr, start, Len(arr))

\* headLinesOf with the head and tail shares swapped (30% head)
headLinesOfSwapped(maxL) == (3 * maxL) \div 10

\* Math.floor(maxLines * 0.7).  In IEEE double arithmetic this equals
\* floor(7 * maxLines / 10) for every maxLines in 0..89 (the first value
\* where the product rounds below the integer is 90); compressDiffs, the
\* only caller, passes 1..MAX_LINES_PER_FILE.
headLinesOf(maxL) == (7 * maxL) \div 10

\* `... [${omitted} lines omitted] ...`
MarkerLine(omitted) == [kind |-> "marker", omitted |-> omitted]

\* truncateDiff with tailLines = maxLines instead of maxLines - headLines
truncateDiffTailFull(d, maxL) ==
    LET lines == d
    IN IF Len(lines) <= maxL THEN d
       ELSE LET headLines == headLinesOf(maxL)
                tailLines == maxL
                omitted == Len(lines) - maxL
            IN Slice(lines, 0, headLines)
                 \o <<MarkerLine(omitted)>>
                 \o SliceFrom(lines, -tailLines)

truncateDiff(d, maxL) ==
    LET lines == d
    IN IF Len(lines) <= maxL THEN d
       ELSE LET headLines == headLinesOf(maxL)
                tailLines == maxL - headLines
                omitted == Len(lines) - maxL
            IN Slice(lines, 0, headLines)
                 \o <<MarkerLine(omitted)>>
                 \o SliceFrom(lines, -tailLines)

----------------------------------------------------------------------------
(* compressDiffs *)

\* fileBudgetOf without the global budget
fileBudgetOfPerFileOnly(total) == MAX_LINES_PER_FILE

\* fileBudgetOf with one line more than what remains of the global budget
fileBudgetOfInclusive(total) ==
    Min(MAX_LINES_PER_FILE, MAX_TOTAL_DIFF_LINES - total + 1)

\* lines 137-138
fileBudgetOf(total) == Min(MAX_LINES_PER_FILE, MAX_TOTAL_DIFF_LINES - total)

\* `--- ${file.path} (deleted)` and `--- ${file.path} (omitted)`
Placeholder(file, what) == <<[kind |-> what, path |-> file.path]>>

\* `--- ${header}\n${truncated}` with
\* header = file.oldPath ? `${file.oldPath} -> ${file.path}` : file.path
Emitted(file, text) ==
    <<[kind |-> "header",
       oldPath |-> IF file.oldPath # <<>> THEN file.oldPath ELSE undefined,
       path |-> file.path]>> \o text

\* compressFile without the branch for deleted files: a deleted file is
\* truncated and charged like any other
compressFileNoDeletedBranch(st, file) ==
    LET fileBudget == fileBudgetOf(st.totalLines)
    IN IF fileBudget <= 0
       THEN [diffs |-> Append(st.diffs, Placeholder(file, "omitted")),
             totalLines |-> st.totalLines]
       ELSE LET t == truncateDiff(file.diff, fileBudget)
            IN [diffs |-> Append(st.diffs, Emitted(file, t)),
                totalLines |-> st.totalLines + Len(t)]

\* compressFile with the budget of one file given back for every file that
\* is omitted
compressFileRefundsOmitted(st, file) ==
    IF file.status = "deleted"
    THEN [diffs |-> Append(st.diffs, Placeholder(file, "deleted")),
          totalLines |-> st.totalLines]
    ELSE LET fileBudget == fileBudgetOf(st.totalLines)
         IN IF fileBudget <= 0
            THEN [diffs |-> Append(st.diffs, Placeholder(file, "omitted")),
                  totalLines |-> st.totalLines - MAX_LINES_PER_FILE]
            ELSE LET t == truncateDiff(file.diff, fileBudget)
                 IN [diffs |-> Append(st.diffs, Emitted(file, t)),
                     totalLines |-> st.totalLines + Len(t)]

\* one iteration of the for-loop (lines 131-150) on the local state
\* st = [diffs, totalLines]
compressFile(st, file) ==
    IF file.status = "deleted"
    THEN [diffs |-> Append(st.diffs, Placeholder(file, "deleted")),
          totalLines |-> st.totalLines]
    ELSE LET fileBudget == fileBudgetOf(st.totalLines)
         IN IF fileBudget <= 0
            THEN [diffs |-> Append(st.diffs, Placeholder(file, "omitted")),
                  totalLines |-> st.totalLines]
            ELSE LET t == truncateDiff(file.diff, fileBudget)
                 IN [diffs |-> Append(st.diffs, Emitted(file, t)),
                     totalLines |-> st.totalLines + Len(t)]

\* diffs.join('\n\n'): the entries with one empty line between two of them;
\* the join of no entry is the empty string
BlankLine == [kind |-> "blank"]

RECURSIVE JoinBlank(_, _)
JoinBlank(entries, k) ==
    IF Len(entries) = 0 THEN <<BlankLine>>
    ELSE IF k = Len(entries) THEN entries[k]
    ELSE entries[k] \o <<BlankLine>> \o JoinBlank(entries, k + 1)

----------------------------------------------------------------------------
(* Inputs *)

\* the lines a diff text handed to parseUnifiedDiff is made of
InputLines ==
    { <<"d","i","f","f"," ","-","-","g","i","t"," ","a","/","x",".","t","s"," ","b","/","x",".","t","s">>,
      <<"d","i","f","f"," ","-","-","g","i","t"," ","a","/","o",".","t","s"," ","b","/","x",".","t","s">>,
      <<"d","i","f","f"," ","-","-","g","i","t"," ","a","/","y",".","m","a","p"," ","b","/","y",".","m","a","p">>,
      <<"d","i","f","f"," ","-","-","g","i","t"," ","b","i","n">>,
      <<"n","e","w"," ","f","i","l","e"," ","m","o","d","e"," ","1","0","0","6","4","4">>,
      <<"d","e","l","e","t","e","d"," ","f","i","l","e"," ","m","o","d","e"," ","1","0","0","6","4","4">>,
      <<"r","e","n","a","m","e"," ","f","r","o","m"," ","o",".","t","s">>,
      <<"-","-","-"," ","a","/","x",".","t","s">>,
      <<"+","+","+"," ","b","/","x",".","t","s">>,
      <<"+","a">>,
      <<"-","b">>,
      <<"+","+","+","i">>,
      <<"-","-","-","-">>,
      <<"+","n","e","w"," ","f","i","l","e"," ","m","o","d","e">>,
      <<"s","e","e"," ","a","/","o",".","t","s"," ","b","/","x",".","t","s">>,
      <<>> }

\* a diff text of n lines for truncateDiff and compressDiffs
DiffLine(k) == [kind |-> "line", n |-> k]
DiffOfLen(n) == [k \in 1..n |-> DiffLine(k)]

\* the FileDiff records handed to compressDiffs
FileShapes ==
    { [status |-> "modified", len |-> 60],
      [status |-> "modified", len |-> 50],
      [status |-> "added",    len |-> 22],
      [status |-> "renamed",  len |-> 21],
      [status |-> "deleted",  len |-> 60] }

FileOf(shape) ==
    [additions |-> 0,
     deletions |-> 0,
     diff |-> DiffOfLen(shape.len),
     oldPath |-> IF shape.status = "renamed" THEN <<"o",".","t","s">> ELSE undefined,
     path |-> <<"x",".","t","s">>,
     status |-> shape.status]

\* a list of files: no or many copies of a file that fills its per-file
\* budget (exactly, or with a truncation), then a few files of any shape
BigShapes == { s \in FileShapes : s.status = "modified" }
BigCounts == {0} \cup ((MaxBig - 2)..MaxBig)
Tails == UNION { [1..n -> FileShapes] : n \in 0..MaxTail }
FileList(s, b, t) ==
    [k \in 1..(b + Len(t)) |-> IF k <= b THEN FileOf(s) ELSE FileOf(t[k - b])]

----------------------------------------------------------------------------
(* Values of the variables a specification does not use *)

EmptySemantics == [classes |-> <<>>, exports |-> <<>>, functions |-> <<>>, types |-> <<>>]

\* the variables outside diff-parser.ts
NoArgs ==
    [userInput |-> << <<>> >>, stats |-> << <<>> >>, semantics |-> EmptySemantics,
     fileList |-> << <<>> >>, compressedDiffs |-> << <<>> >>,
     selectedType |-> undefined, recentCommits |-> <<>>]

SemanticIdle == semantics = EmptySemantics
PromptIdle == args = NoArgs /\ prompt = << <<>> >>
PipelineIdle == lastIndex = <<>> /\ history = <<>>
MainIdle ==
    /\ hasStaged = FALSE /\ headExists = FALSE
    /\ exitCode = -1 /\ outcome = ""
    /\ requests = 0 /\ commits = 0 /\ pushes = 0 /\ finalMessage = ""
    /\ events = <<>> /\ aiPromise = [state |-> "none", value |-> ""] /\ panel = "none"
ReleaseIdle ==
    /\ aicConfig = [release |-> <<>>, publish |-> <<>>] /\ steps = <<>>
    /\ confirmed = "unasked"
BumpIdle == currentVersion = <<>> /\ releaseType = "patch" /\ newVersion = <<>>
ChangelogIdle == changelogFile = <<>> /\ newEntry = << <<>> >> /\ newContent = << <<>> >>
SecretIdle ==
    /\ store = <<>>
    /\ lastRun = [command |-> "none", selected |-> "", exit |-> 0, found |-> <<>>]
ExecuteIdle ==
    /\ commands = <<>> /\ dryRun = FALSE /\ cmdIdx = 0 /\ calls = <<>>
    /\ returned = "running"
ToolIdle == BumpIdle /\ ChangelogIdle /\ SecretIdle /\ ExecuteIdle

\* the variables outside diff-parser.ts
OtherIdle ==
    SemanticIdle /\ PromptIdle /\ PipelineIdle /\ MainIdle /\ ReleaseIdle /\ ToolIdle

\* the variables of diff-parser.ts, but for files
ParserIdle ==
    /\ diffOutput = <<>> /\ parsed = EmptyParsedDiff /\ classified = EmptyClassified
    /\ idx = 0 /\ diffs = <<>> /\ totalLines = 0 /\ output = <<>>
    /\ diff = <<>> /\ maxLines = 0 /\ truncated = <<>>

----------------------------------------------------------------------------
(* Specification of parseUnifiedDiff followed by classifyFiles
   (index.ts lines 474-475) *)

InitParse ==
    /\ pc = "start"
    /\ \E n \in 1..MaxLines : diffOutput \in [1..n -> InputLines]
    /\ parsed = EmptyParsedDiff
    /\ classified = EmptyClassified
    /\ files = <<>> /\ idx = 0 /\ diffs = <<>> /\ totalLines = 0
    /\ output = <<>>
    /\ diff = <<>> /\ maxLines = 0 /\ truncated = <<>>
    /\ OtherIdle

Parse ==
    /\ pc = "start"
    /\ parsed' = parseUnifiedDiff(diffOutput)
    /\ pc' = "parsed"
    /\ UNCHANGED <<diffOutput, classified, compressVars, truncateVars, otherVars>>

Classify ==
    /\ pc = "parsed"
    /\ classified' = classifyFiles(parsed.files)
    /\ pc' = "classified"
    /\ UNCHANGED <<diffOutput, parsed, compressVars, truncateVars, otherVars>>

NextParse == Parse \/ Classify

SpecParse == InitParse /\ [][NextParse]_vars

----------------------------------------------------------------------------
(* Specification of truncateDiff *)

InitTruncate ==
    /\ pc = "call"
    /\ diff \in { DiffOfLen(n) : n \in 1..MaxDiffLen }
    /\ maxLines \in 1..MAX_LINES_PER_FILE
    /\ truncated = <<>>
    /\ diffOutput = <<>> /\ parsed = EmptyParsedDiff /\ classified = EmptyClassified
    /\ files = <<>> /\ idx = 0 /\ diffs = <<>> /\ totalLines = 0
    /\ output = <<>>
    /\ OtherIdle

Truncate ==
    /\ pc = "call"
    /\ truncated' = truncateDiff(diff, maxLines)
    /\ pc' = "done"
    /\ UNCHANGED <<diff, maxLines, parseVars, compressVars, otherVars>>

NextTruncate == Truncate

SpecTruncate == InitTruncate /\ [][NextTruncate]_vars

----------------------------------------------------------------------------
(* Specification of compressDiffs *)

InitCompress ==
    /\ pc = "loop"
    /\ \E s \in BigShapes, b \in BigCounts, t \in Tails : files = FileList(s, b, t)
    /\ idx = 0
    /\ diffs = <<>>
    /\ totalLines = 0
    /\ output = <<>>
    /\ diffOutput = <<>> /\ parsed = EmptyParsedDiff /\ classified = EmptyClassified
    /\ diff = <<>> /\ maxLines = 0 /\ truncated = <<>>
    /\ OtherIdle

\* one iteration of the for-loop
CompressFile ==
    /\ pc = "loop"
    /\ idx < Len(files)
    /\ LET st == compressFile([diffs |-> diffs, totalLines |-> totalLines],
                              files[idx + 1])
       IN /\ diffs' = st.diffs
          /\ totalLines' = st.totalLines
    /\ idx' = idx + 1
    /\ UNCHANGED <<pc, files, output, parseVars, truncateVars, otherVars>>

\* return diffs.join('\n\n')
CompressReturn ==
    /\ pc = "loop"
    /\ idx = Len(files)
    /\ output' = JoinBlank(diffs, 1)
    /\ pc' = "returned"
    /\ UNCHANGED <<files, idx, diffs, totalLines, parseVars, truncateVars, otherVars>>

NextCompress == CompressFile \/ CompressReturn

SpecCompress == InitCompress /\ [][NextCompress]_vars

----------------------------------------------------------------------------
(* Regular expressions of semantic.ts *)

\* A flat string is a sequence of characters, with NL for the newline.
NL == "\n"

\* text.join('\n') as one flat string
RECURSIVE Flatten(_)
Flatten(text) ==
    IF Len(text) = 1 THEN text[1]
    ELSE text[1] \o <<NL>> \o Flatten(Tail(text))

\* \s and \w
SpaceChars == { " ", NL, "\t" }
WordChars ==
    { "a","b","c","d","e","f","g","h","i","j","k","l","m","n","o","p","q","r",
      "s","t","u","v","w","x","y","z",
      "A","B","C","D","E","F","G","H","I","J","K","L","M","N","O","P","Q","R",
      "S","T","U","V","W","X","Y","Z",
      "0","1","2","3","4","5","6","7","8","9","_" }

\* A regular expression is a sequence of atoms:
\*   Alt(<<l1, l2, ..>>)  (?:l1|l2|..), alternatives tried in this order
\*   Ws(min)              \s+ (min = 1) or \s* (min = 0), greedy
\*   Word(min, cap)       \w+ or \w*, greedy; cap: it is the capture group (\w+)
\*   Opt(n)               (?: the next n atoms )?, greedy
Alt(alts) == [t |-> "alt", alts |-> alts]
Ws(min) == [t |-> "cls", chars |-> SpaceChars, min |-> min, cap |-> FALSE]
Word(min, cap) == [t |-> "cls", chars |-> WordChars, min |-> min, cap |-> cap]
Opt(n) == [t |-> "opt", n |-> n]

NoMatch == [end |-> -1, cap |-> <<>>]

\* length of the longest run of characters of a class in s from position i
RECURSIVE RunLen(_, _, _)
RunLen(s, i, chars) ==
    IF i <= Len(s) /\ s[i] \in chars THEN 1 + RunLen(s, i + 1, chars) ELSE 0

\* Backtracking match of the atoms re[k..] on s from position i: the first
\* match in the order a backtracking matcher tries them, or NoMatch.  end is
\* the position after the match and cap the text of the capture group.
RECURSIVE MatchFrom(_, _, _, _, _), MatchAlt(_, _, _, _, _, _), MatchRun(_, _, _, _, _, _)
MatchFrom(re, k, s, i, cap) ==
    IF k > Len(re) THEN [end |-> i, cap |-> cap]
    ELSE IF re[k].t = "alt" THEN MatchAlt(re, k, s, i, cap, 1)
    ELSE IF re[k].t = "cls"
         THEN MatchRun(re, k, s, i, cap, RunLen(s, i, re[k].chars))
    ELSE \* "opt": with the group first, then without it
         LET with == MatchFrom(re, k + 1, s, i, cap)
         IN IF with # NoMatch THEN with
            ELSE MatchFrom(re, k + 1 + re[k].n, s, i, cap)

\* the alternatives from the j-th on
MatchAlt(re, k, s, i, cap, j) ==
    IF j > Len(re[k].alts) THEN NoMatch
    ELSE LET lit == re[k].alts[j]
             m == IF OccursAt(s, lit, i)
                  THEN MatchFrom(re, k + 1, s, i + Len(lit), cap)
                  ELSE NoMatch
         IN IF m # NoMatch THEN m ELSE MatchAlt(re, k, s, i, cap, j + 1)

\* a run of n characters of the class, then of fewer
MatchRun(re, k, s, i, cap, n) ==
    IF n < re[k].min THEN NoMatch
    ELSE LET m == MatchFrom(re, k + 1, s, i + n,
                            IF re[k].cap THEN SubSeq(s, i, i + n - 1) ELSE cap)
         IN IF m # NoMatch THEN m ELSE MatchRun(re, k, s, i, cap, n - 1)

\* [...s.matchAll(re)] for a regular expression with the g flag: the matches
\* from left to right, each search starting where the last match ended;
\* each match as [start, cap]
RECURSIVE MatchAllFrom(_, _, _, _)
MatchAllFrom(re, s, pos, acc) ==
    LET starts == { p \in pos..Len(s) : MatchFrom(re, 1, s, p, <<>>) # NoMatch }
    IN IF starts = {} THEN acc
       ELSE LET p == SetMin(starts)
                m == MatchFrom(re, 1, s, p, <<>>)
            IN MatchAllFrom(re, s, IF m.end > p THEN m.end ELSE p + 1,
                            Append(acc, [start |-> p, cap |-> m.cap]))

matchAll(s, re) == MatchAllFrom(re, s, 1, <<>>)

\* .map((m) => m[1])
Captures(matches) == [k \in 1..Len(matches) |-> matches[k].cap]

\* [...new Set(list)]: the elements in the order of their first insertion
RECURSIVE Dedupe(_, _)
Dedupe(list, acc) ==
    IF list = <<>> THEN acc
    ELSE Dedupe(Tail(list),
                IF \E k \in 1..Len(acc) : acc[k] = Head(list) THEN acc
                ELSE Append(acc, Head(list)))

\* the list as it is, repeats included
NewSetKeepsRepeats(list) == list

NewSet(list) == Dedupe(list, <<>>)

\* /(?:function|async function)\s+(\w+)\s*\(/g
RE_FUNCTION ==
    << Alt(<<<<"f","u","n","c","t","i","o","n">>, <<"a","s","y","n","c"," ","f","u","n","c","t","i","o","n">>>>), Ws(1), Word(1, TRUE), Ws(0),
       Alt(<<<<"(">>>>) >>
\* /(?:const|let|var)\s+(\w+)\s*=\s*(?:async\s*)?\(/g
RE_BINDING_PAREN ==
    << Alt(<<<<"c","o","n","s","t">>, <<"l","e","t">>, <<"v","a","r">>>>), Ws(1), Word(1, TRUE), Ws(0),
       Alt(<<<<"=">>>>), Ws(0), Opt(2), Alt(<<<<"a","s","y","n","c">>>>), Ws(0), Alt(<<<<"(">>>>) >>
\* /(?:const|let|var)\s+(\w+)\s*=\s*(?:async\s*)?\w*\s*=>/g
RE_BINDING_ARROW ==
    << Alt(<<<<"c","o","n","s","t">>, <<"l","e","t">>, <<"v","a","r">>>>), Ws(1), Word(1, TRUE), Ws(0),
       Alt(<<<<"=">>>>), Ws(0), Opt(2), Alt(<<<<"a","s","y","n","c">>>>), Ws(0), Word(0, FALSE),
       Ws(0), Alt(<<<<"=",">">>>>) >>
\* /(?:interface|type)\s+(\w+)/g
RE_TYPE == << Alt(<<<<"i","n","t","e","r","f","a","c","e">>, <<"t","y","p","e">>>>), Ws(1), Word(1, TRUE) >>
\* /class\s+(\w+)/g
RE_CLASS == << Alt(<<<<"c","l","a","s","s">>>>), Ws(1), Word(1, TRUE) >>
\* /export\s+(?:default\s+)?(?:function|const|class|interface|type|async function)\s+(\w+)/g
RE_EXPORT ==
    << Alt(<<<<"e","x","p","o","r","t">>>>), Ws(1), Opt(2), Alt(<<<<"d","e","f","a","u","l","t">>>>), Ws(1),
       Alt(<<<<"f","u","n","c","t","i","o","n">>, <<"c","o","n","s","t">>, <<"c","l","a","s","s">>, <<"i","n","t","e","r","f","a","c","e">>, <<"t","y","p","e">>,
             <<"a","s","y","n","c"," ","f","u","n","c","t","i","o","n">>>>),
       Ws(1), Word(1, TRUE) >>

----------------------------------------------------------------------------
(* extractSemantics *)

\* lines 6-12; the join of no line is the empty string
isAddedCode(line) == StartsWith(line, PLUS) /\ ~StartsWith(line, PLUS3)
\* extractAddedCode that keeps the removed lines as well
extractAddedCodeAnyMarker(d) ==
    LET added == SelectSeq(d, LAMBDA line :
                     \/ isAddedCode(line)
                     \/ (StartsWith(line, MINUS) /\ ~StartsWith(line, MINUS3)))
    IN IF added = <<>> THEN << <<>> >>
       ELSE [k \in 1..Len(added) |-> DropChars(added[k], 1)]

\* lines 6-12
extractAddedCode(d) ==
    LET added == SelectSeq(d, isAddedCode)
    IN IF added = <<>> THEN << <<>> >>
       ELSE [k \in 1..Len(added) |-> DropChars(added[k], 1)]

\* lines 18-21: the added code of the files that are not deleted, joined
\* with '\n'
RECURSIVE JoinTexts(_)
JoinTexts(texts) ==
    IF texts = <<>> THEN << <<>> >>
    ELSE IF Len(texts) = 1 THEN texts[1]
    ELSE texts[1] \o JoinTexts(Tail(texts))

notDeleted(f) == f.status # "deleted"
allAddedCodeOf(fs) ==
    LET kept == SelectSeq(fs, notDeleted)
    IN Flatten(JoinTexts([k \in 1..Len(kept) |-> extractAddedCode(kept[k].diff)]))

\* lines 24-28
functionMatches(code) ==
    matchAll(code, RE_FUNCTION) \o matchAll(code, RE_BINDING_PAREN)
      \o matchAll(code, RE_BINDING_ARROW)

\* lines 17-46
extractSemantics(fs) ==
    LET allAddedCode == allAddedCodeOf(fs)
    IN [classes |-> NewSet(Captures(matchAll(allAddedCode, RE_CLASS))),
        exports |-> NewSet(Captures(matchAll(allAddedCode, RE_EXPORT))),
        functions |-> NewSet(Captures(functionMatches(allAddedCode))),
        types |-> NewSet(Captures(matchAll(allAddedCode, RE_TYPE)))]

----------------------------------------------------------------------------
(* Specification of extractSemantics *)

\* longest input of extractSemantics, in diff lines and file boundaries
MaxSemItems == 3

\* the lines the diffs of the files are made of
SemLines ==
    { <<"+","f","u","n","c","t","i","o","n"," ","f","(">>,
      <<"+","c","o","n","s","t"," ","g"," ","="," ","(">>,
      <<"+","l","e","t"," ","k"," ","="," ","x"," ","=",">">>,
      <<"+","e","x","p","o","r","t"," ","t","y","p","e"," ","T">>,
      <<"+","c","l","a","s","s"," ","C">>,
      <<"-","f","u","n","c","t","i","o","n"," ","h","(">>,
      <<"+","+","+"," ","b","/","x",".","t","s">>,
      <<" ","c","l","a","s","s"," ","D">>,
      <<"+","f","u","n","c","t","i","o","n">>,
      <<"+","f","(">> }

\* an item is a diff line or the start of a further file of the given status
FileStart(status) == <<"file", status>>
SemItems == SemLines \cup { FileStart("modified"), FileStart("deleted") }

SemHeader == <<"d","i","f","f"," ","-","-","g","i","t"," ","a","/","x",".","t","s"," ","b","/","x",".","t","s">>

SemFile(status, body) ==
    [additions |-> countAdditions(body),
     deletions |-> countDeletions(body),
     diff |-> <<SemHeader>> \o body,
     oldPath |-> undefined,
     path |-> <<"x",".","t","s">>,
     status |-> status]

\* the files an item sequence describes; the first file is a modified one
RECURSIVE SemFilesFrom(_, _, _, _, _)
SemFilesFrom(items, k, status, body, acc) ==
    IF k > Len(items) THEN Append(acc, SemFile(status, body))
    ELSE IF items[k] \in SemLines
         THEN SemFilesFrom(items, k + 1, status, Append(body, items[k]), acc)
         ELSE SemFilesFrom(items, k + 1, items[k][2], <<>>,
                           Append(acc, SemFile(status, body)))

SemFiles(items) == SemFilesFrom(items, 1, "modified", <<>>, <<>>)

InitSemantics ==
    /\ pc = "extract"
    /\ \E n \in 0..MaxSemItems : \E items \in [1..n -> SemItems] :
         files = SemFiles(items)
    /\ ParserIdle
    /\ OtherIdle

Extract ==
    /\ pc = "extract"
    /\ semantics' = extractSemantics(files)
    /\ pc' = "extracted"
    /\ UNCHANGED <<parseVars, compressVars, truncateVars, promptVars, pipelineVars, mainVars,
                   releaseVars, toolVars>>

NextSemantics == Extract

SpecSemantics == InitSemantics /\ [][NextSemantics]_vars

----------------------------------------------------------------------------
(* Strings of the prompt *)

\* parts.join(sep) of strings without newline, as one line
RECURSIVE JoinChars(_, _)
JoinChars(parts, sep) ==
    IF parts = <<>> THEN <<>>
    ELSE IF Len(parts) = 1 THEN parts[1]
    ELSE parts[1] \o sep \o JoinChars(Tail(parts), sep)

\* `${n}` of a non-negative integer
DigitChars == <<"0","1","2","3","4","5","6","7","8","9">>
RECURSIVE ToDecimal(_)
ToDecimal(n) ==
    IF n < 10 THEN <<DigitChars[n + 1]>>
    ELSE ToDecimal(n \div 10) \o <<DigitChars[(n % 10) + 1]>>

\* the empty string; the only falsy string
EmptyString == << <<>> >>

\* text.trim(): the text from its first to its last character that is not
\* white space
NonSpace(line) == { j \in 1..Len(line) : line[j] \notin SpaceChars }
SetMax(S) == CHOOSE m \in S : \A n \in S : m >= n
Trim(text) ==
    LET inked == { k \in 1..Len(text) : NonSpace(text[k]) # {} }
    IN IF inked = {} THEN EmptyString
       ELSE LET first == SetMin(inked)
                last == SetMax(inked)
                from == SetMin(NonSpace(text[first]))
                to == SetMax(NonSpace(text[last]))
            IN [k \in 1..(last - first + 1) |->
                  LET line == text[first + k - 1]
                  IN SubSeq(line,
                            IF k = 1 THEN from ELSE 1,
                            IF first + k - 1 = last THEN to ELSE Len(line))]

\* sections.join('\n\n'), diffs.join('\n\n'): the strings with one empty
\* line between two of them
RECURSIVE JoinSections(_)
JoinSections(sections) ==
    IF sections = <<>> THEN EmptyString
    ELSE IF Len(sections) = 1 THEN sections[1]
    ELSE sections[1] \o << <<>> >> \o JoinSections(Tail(sections))

----------------------------------------------------------------------------
(* formatSemantics and formatStats *)

\* part_003 lines 51-61
formatSemantics(sem) ==
    LET parts ==
          (IF Len(sem.functions) > 0
           THEN << <<"F","u","n","c","t","i","o","n","s",":"," ">> \o JoinChars(Slice(sem.functions, 0, 10), <<","," ">>) >>
           ELSE <<>>)
          \o (IF Len(sem.classes) > 0
              THEN << <<"C","l","a","s","s","e","s",":"," ">> \o JoinChars(Slice(sem.classes, 0, 5), <<","," ">>) >>
              ELSE <<>>)
          \o (IF Len(sem.types) > 0
              THEN << <<"T","y","p","e","s",":"," ">> \o JoinChars(Slice(sem.types, 0, 5), <<","," ">>) >>
              ELSE <<>>)
          \o (IF Len(sem.exports) > 0
              THEN << <<"E","x","p","o","r","t","s",":"," ">> \o JoinChars(Slice(sem.exports, 0, 5), <<","," ">>) >>
              ELSE <<>>)
    IN IF parts = <<>> THEN EmptyString ELSE parts

\* files.included.filter((f) => f.status === status).length
CountStatus(fs, status) == Len(SelectSeq(fs, LAMBDA f : f.status = status))

\* part_003 lines 66-83
formatStats(cl, totalAdditions, totalDeletions) ==
    LET added == CountStatus(cl.included, "added")
        modified == CountStatus(cl.included, "modified")
        deleted == CountStatus(cl.included, "deleted")
        renamed == CountStatus(cl.included, "renamed")
        counts ==
          (IF modified > 0 THEN << ToDecimal(modified) \o <<" ","m","o","d","i","f","i","e","d">> >> ELSE <<>>)
          \o (IF added > 0 THEN << ToDecimal(added) \o <<" ","a","d","d","e","d">> >> ELSE <<>>)
          \o (IF deleted > 0 THEN << ToDecimal(deleted) \o <<" ","d","e","l","e","t","e","d">> >> ELSE <<>>)
          \o (IF renamed > 0 THEN << ToDecimal(renamed) \o <<" ","r","e","n","a","m","e","d">> >> ELSE <<>>)
    IN << <<"F","i","l","e","s",":"," ">> \o JoinChars(counts, <<","," ">>) \o <<" ","|"," ","L","i","n","e","s",":"," ","+">>
            \o ToDecimal(totalAdditions) \o <<" ","/"," ","-">> \o ToDecimal(totalDeletions) >>

----------------------------------------------------------------------------
(* buildPrompt *)

\* COMMIT_TYPES with three more labels, the last without a description
COMMIT_TYPES_Fourteen ==
    << << <<"b","u","i","l","d">>, <<"B","u","i","l","d"," ","s","y","s","t","e","m"," ","o","r"," ","e","x","t","e","r","n","a","l"," ","d","e","p","e","n","d","e","n","c","y"," ","c","h","a","n","g","e","s">> >>,
       << <<"c","h","o","r","e">>, <<"M","a","i","n","t","e","n","a","n","c","e"," ","t","a","s","k","s",","," ","n","o"," ","p","r","o","d","u","c","t","i","o","n"," ","c","o","d","e"," ","c","h","a","n","g","e">> >>,
       << <<"c","i">>, <<"C","I","/","C","D"," ","c","o","n","f","i","g","u","r","a","t","i","o","n"," ","c","h","a","n","g","e","s">> >>,
       << <<"d","o","c","s">>, <<"D","o","c","u","m","e","n","t","a","t","i","o","n"," ","o","n","l","y"," ","c","h","a","n","g","e","s">> >>,
       << <<"f","e","a","t">>, <<"A"," ","n","e","w"," ","f","e","a","t","u","r","e"," ","f","o","r"," ","t","h","e"," ","u","s","e","r">> >>,
       << <<"f","i","x">>, <<"A"," ","b","u","g"," ","f","i","x">> >>,
       << <<"p","e","r","f">>, <<"P","e","r","f","o","r","m","a","n","c","e"," ","i","m","p","r","o","v","e","m","e","n","t","s">> >>,
       << <<"r","e","f","a","c","t","o","r">>, <<"C","o","d","e"," ","r","e","s","t","r","u","c","t","u","r","i","n","g"," ","w","i","t","h","o","u","t"," ","c","h","a","n","g","i","n","g"," ","b","e","h","a","v","i","o","r">> >>,
       << <<"r","e","v","e","r","t">>, <<"R","e","v","e","r","t","i","n","g"," ","a"," ","p","r","e","v","i","o","u","s"," ","c","o","m","m","i","t">> >>,
       << <<"s","t","y","l","e">>, <<"F","o","r","m","a","t","t","i","n","g",","," ","w","h","i","t","e","s","p","a","c","e",","," ","o","r"," ","s","t","y","l","e"," ","c","h","a","n","g","e","s">> >>,
       << <<"t","e","s","t">>, <<"A","d","d","i","n","g"," ","o","r"," ","u","p","d","a","t","i","n","g"," ","t","e","s","t","s">> >>,
       << <<"w","i","p">>, <<"W","o","r","k"," ","i","n"," ","p","r","o","g","r","e","s","s">> >>,
       << <<"d","e","p","s">>, <<"D","e","p","e","n","d","e","n","c","y"," ","u","p","d","a","t","e","s">> >>,
       << <<"m","i","s","c">>, <<>> >> >>

\* ai.ts lines 173-185, as Object.entries lists them
COMMIT_TYPES ==
    << << <<"b","u","i","l","d">>, <<"B","u","i","l","d"," ","s","y","s","t","e","m"," ","o","r"," ","e","x","t","e","r","n","a","l"," ","d","e","p","e","n","d","e","n","c","y"," ","c","h","a","n","g","e","s">> >>,
       << <<"c","h","o","r","e">>, <<"M","a","i","n","t","e","n","a","n","c","e"," ","t","a","s","k","s",","," ","n","o"," ","p","r","o","d","u","c","t","i","o","n"," ","c","o","d","e"," ","c","h","a","n","g","e">> >>,
       << <<"c","i">>, <<"C","I","/","C","D"," ","c","o","n","f","i","g","u","r","a","t","i","o","n"," ","c","h","a","n","g","e","s">> >>,
       << <<"d","o","c","s">>, <<"D","o","c","u","m","e","n","t","a","t","i","o","n"," ","o","n","l","y"," ","c","h","a","n","g","e","s">> >>,
       << <<"f","e","a","t">>, <<"A"," ","n","e","w"," ","f","e","a","t","u","r","e"," ","f","o","r"," ","t","h","e"," ","u","s","e","r">> >>,
       << <<"f","i","x">>, <<"A"," ","b","u","g"," ","f","i","x">> >>,
       << <<"p","e","r","f">>, <<"P","e","r","f","o","r","m","a","n","c","e"," ","i","m","p","r","o","v","e","m","e","n","t","s">> >>,
       << <<"r","e","f","a","c","t","o","r">>, <<"C","o","d","e"," ","r","e","s","t","r","u","c","t","u","r","i","n","g"," ","w","i","t","h","o","u","t"," ","c","h","a","n","g","i","n","g"," ","b","e","h","a","v","i","o","r">> >>,
       << <<"r","e","v","e","r","t">>, <<"R","e","v","e","r","t","i","n","g"," ","a"," ","p","r","e","v","i","o","u","s"," ","c","o","m","m","i","t">> >>,
       << <<"s","t","y","l","e">>, <<"F","o","r","m","a","t","t","i","n","g",","," ","w","h","i","t","e","s","p","a","c","e",","," ","o","r"," ","s","t","y","l","e"," ","c","h","a","n","g","e","s">> >>,
       << <<"t","e","s","t">>, <<"A","d","d","i","n","g"," ","o","r"," ","u","p","d","a","t","i","n","g"," ","t","e","s","t","s">> >> >>

\* COMMIT_TYPES[selectedType] || ''
typeDescOf(types, selectedType) ==
    LET hits == SelectSeq(types, LAMBDA e : e[1] = selectedType)
    IN IF hits = <<>> THEN <<>> ELSE hits[1][2]

AUTO == <<"a","u","t","o">>

PREAMBLE == <<"G","e","n","e","r","a","t","e"," ","a"," ","c","o","n","v","e","n","t","i","o","n","a","l"," ","c","o","m","m","i","t"," ","m","e","s","s","a","g","e",".">>
H_SELECTION == <<"#","#"," ","U","s","e","r"," ","S","e","l","e","c","t","i","o","n">>
H_RECENT == <<"#","#"," ","R","e","c","e","n","t"," ","P","r","o","j","e","c","t"," ","A","c","t","i","v","i","t","y">>
H_NOTE == <<"#","#"," ","U","s","e","r"," ","N","o","t","e">>
H_STATS == <<"#","#"," ","S","t","a","t","s">>
H_CODE == <<"#","#"," ","C","o","d","e"," ","C","h","a","n","g","e","s">>
H_FILES == <<"#","#"," ","F","i","l","e","s">>
H_DIFF == <<"#","#"," ","D","i","f","f">>
H_TYPES == <<"#","#"," ","C","o","m","m","i","t"," ","T","y","p","e","s">>
H_RULES == <<"#","#"," ","R","u","l","e","s">>
CLOSING == <<"I","M","P","O","R","T","A","N","T",":"," ","R","e","p","l","y"," ","w","i","t","h"," ","O","N","L","Y"," ","t","h","e"," ","c","o","m","m","i","t"," ","m","e","s","s","a","g","e","."," ","N","o"," ","e","x","p","l","a","n","a","t","i","o","n","s",","," ","n","o"," ","p","r","e","a","m","b","l","e",","," ","n","o"," ","\"","H","e","r","e","'","s","\"",","," ","n","o"," ","q","u","o","t","e","s","."," ","J","u","s","t"," ","t","h","e"," ","c","o","m","m","i","t"," ","m","e","s","s","a","g","e"," ","s","t","a","r","t","i","n","g"," ","w","i","t","h"," ","t","h","e"," ","t","y","p","e",".">>

\* lines 339-344
selectionSection(selectedType) ==
    << H_SELECTION,
       <<"T","h","e"," ","u","s","e","r"," ","i","n","d","i","c","a","t","e","d"," ","t","h","i","s"," ","c","o","m","m","i","t"," ","i","s"," ","m","o","s","t"," ","l","i","k","e","l","y"," ","a"," ","\"">> \o selectedType
         \o <<"\""," ","(">> \o typeDescOf(COMMIT_TYPES, selectedType) \o <<")",".">>,
       <<"U","s","e"," ","t","h","i","s"," ","t","y","p","e"," ","u","n","l","e","s","s"," ","a","b","s","o","l","u","t","e","l","y"," ","c","e","r","t","a","i","n"," ","a","n","o","t","h","e","r"," ","t","y","p","e"," ","i","s"," ","m","o","r","e"," ","a","c","c","u","r","a","t","e",".">>,
       <<"Y","o","u"," ","c","a","n"," ","s","t","i","l","l"," ","a","d","d"," ","a"," ","s","c","o","p","e"," ","i","n"," ","p","a","r","e","n","t","h","e","s","e","s",","," ","e",".","g",".",","," ">> \o selectedType
         \o <<"(","s","c","o","p","e",")",":"," ","d","e","s","c","r","i","p","t","i","o","n",".">> >>

\* lines 346-351; a commit subject has no newline
recentSection(recentCommits) ==
    << H_RECENT,
       <<"T","h","e","s","e"," ","a","r","e"," ","t","h","e"," ","m","o","s","t"," ","r","e","c","e","n","t"," ","c","o","m","m","i","t","s"," ","i","n"," ","t","h","i","s"," ","r","e","p","o","s","i","t","o","r","y",","," ","s","h","o","w","i","n","g"," ","w","h","a","t"," ","t","h","e"," ","d","e","v","e","l","o","p","e","r"," ","h","a","s"," ","b","e","e","n"," ","w","o","r","k","i","n","g"," ","o","n","."," ","U","s","e"," ","t","h","i","s"," ","c","o","n","t","e","x","t"," ","t","o"," ","b","e","t","t","e","r"," ","u","n","d","e","r","s","t","a","n","d"," ","h","o","w"," ","t","h","e"," ","c","u","r","r","e","n","t"," ","c","h","a","n","g","e","s"," ","f","i","t"," ","i","n","t","o"," ","t","h","e"," ","o","n","g","o","i","n","g"," ","w","o","r","k",":">> >>
    \o [k \in 1..Len(recentCommits) |-> <<"-"," ">> \o recentCommits[k]]

\* lines 366-368
typeDescriptionsOf(types) ==
    [k \in 1..Len(types) |-> <<"-"," ">> \o types[k][1] \o <<":"," ">> \o types[k][2]]

\* lines 370-378: the last section pushed
closingSection(types) ==
    <<H_TYPES>> \o typeDescriptionsOf(types)
    \o << <<>>,
          H_RULES,
          <<"-"," ","M","a","x"," ","7","2"," ","c","h","a","r","a","c","t","e","r","s">>,
          <<"-"," ","F","o","r","m","a","t",":"," ","t","y","p","e","(","s","c","o","p","e",")",":"," ","d","e","s","c","r","i","p","t","i","o","n"," ","O","R"," ","t","y","p","e",":"," ","d","e","s","c","r","i","p","t","i","o","n">>,
          <<"-"," ","F","o","c","u","s"," ","o","n"," ","W","H","Y"," ","n","o","t"," ","W","H","A","T">>,
          <<>>,
          CLOSING >>

\* buildPrompt that pushes the semantic section whatever formatSemantics
\* returns
buildPromptAlwaysCode(userInput, stats, sem, fileList, compressedDiffs, selectedType, recentCommits) ==
    JoinSections(
      << <<PREAMBLE>> >>
      \o (IF selectedType # <<>> /\ selectedType # AUTO
          THEN <<selectionSection(selectedType)>> ELSE <<>>)
      \o (IF Len(recentCommits) > 0 THEN <<recentSection(recentCommits)>> ELSE <<>>)
      \o (IF Trim(userInput) # EmptyString
          THEN << <<H_NOTE>> \o Trim(userInput) >> ELSE <<>>)
      \o << <<H_STATS>> \o stats >>
      \o << <<H_CODE>> \o formatSemantics(sem) >>
      \o (IF fileList # EmptyString THEN << <<H_FILES>> \o fileList >> ELSE <<>>)
      \o (IF compressedDiffs # EmptyString
          THEN << <<H_DIFF>> \o compressedDiffs >> ELSE <<>>)
      \o << closingSection(COMMIT_TYPES) >>)

\* ai.ts lines 328-381.  An absent selectedType is the empty string and an
\* absent recentCommits the empty list: the code tests both for truthiness
\* and length only.
buildPrompt(userInput, stats, sem, fileList, compressedDiffs, selectedType, recentCommits) ==
    JoinSections(
      << <<PREAMBLE>> >>
      \o (IF selectedType # <<>> /\ selectedType # AUTO
          THEN <<selectionSection(selectedType)>> ELSE <<>>)
      \o (IF Len(recentCommits) > 0 THEN <<recentSection(recentCommits)>> ELSE <<>>)
      \o (IF Trim(userInput) # EmptyString
          THEN << <<H_NOTE>> \o Trim(userInput) >> ELSE <<>>)
      \o << <<H_STATS>> \o stats >>
      \o (IF formatSemantics(sem) # EmptyString
          THEN << <<H_CODE>> \o formatSemantics(sem) >> ELSE <<>>)
      \o (IF fileList # EmptyString THEN << <<H_FILES>> \o fileList >> ELSE <<>>)
      \o (IF compressedDiffs # EmptyString
          THEN << <<H_DIFF>> \o compressedDiffs >> ELSE <<>>)
      \o << closingSection(COMMIT_TYPES) >>)

----------------------------------------------------------------------------
(* Specification of buildPrompt *)

\* longest list of recent commits handed to buildPrompt
MaxRecent == 2

NoteSamples == { EmptyString, << <<" "," ">> >>, << <<" ","f","i","x"," ","l","o","g","i","n"," ">> >>, << <<"w","h","y",":">>, <<"l","o","g","i","n">>, <<>> >> }
StatsSamples == { << <<"F","i","l","e","s",":"," ","1"," ","m","o","d","i","f","i","e","d"," ","|"," ","L","i","n","e","s",":"," ","+","1"," ","/"," ","-","0">> >> }
SemanticsSamples ==
    { EmptySemantics,
      [EmptySemantics EXCEPT !.functions = << <<"f">> >>],
      [EmptySemantics EXCEPT !.types = << <<"T">> >>],
      [classes |-> << <<"C">> >>, exports |-> << <<"T">>, <<"C">> >>,
       functions |-> << <<"f">>, <<"g">> >>, types |-> << <<"T">> >>],
      [EmptySemantics EXCEPT !.functions =
         << <<"f","0">>, <<"f","1">>, <<"f","2">>, <<"f","3">>, <<"f","4">>, <<"f","5">>, <<"f","6">>, <<"f","7">>,
            <<"f","8">>, <<"f","9">>, <<"f","1","0">> >>] }
FileListSamples == { EmptyString, << <<"x",".","t","s">> >>, << <<"x",".","t","s">>, <<"(","e","x","c","l","u","d","e","d",":"," ","1"," ","f","i","l","e","s",")">> >> }
DiffSamples == { EmptyString, << <<"-","-","-"," ","x",".","t","s">>, <<"+","a">>, <<>>, <<"-","-","-"," ","y",".","t","s"," ","(","d","e","l","e","t","e","d",")">> >> }
TypeSamples == { undefined, AUTO, <<"f","e","a","t">>, <<"w","i","p">> }
SubjectSamples == { <<"f","i","x",":"," ","l","o","g","i","n">>, <<"d","o","c","s",":"," ","r","e","a","d","m","e">> }

InitPrompt ==
    /\ pc = "build"
    /\ \E userInput \in NoteSamples, stats \in StatsSamples, sem \in SemanticsSamples,
          fileList \in FileListSamples, compressedDiffs \in DiffSamples,
          selectedType \in TypeSamples, n \in 0..MaxRecent :
         \E recentCommits \in [1..n -> SubjectSamples] :
           args = [userInput |-> userInput, stats |-> stats, semantics |-> sem,
                   fileList |-> fileList, compressedDiffs |-> compressedDiffs,
                   selectedType |-> selectedType, recentCommits |-> recentCommits]
    /\ prompt = EmptyString
    /\ files = <<>>
    /\ ParserIdle /\ SemanticIdle /\ PipelineIdle /\ MainIdle /\ ReleaseIdle /\ ToolIdle

Build ==
    /\ pc = "build"
    /\ prompt' = buildPrompt(args.userInput, args.stats, args.semantics, args.fileList,
                             args.compressedDiffs, args.selectedType, args.recentCommits)
    /\ pc' = "built"
    /\ UNCHANGED <<args, parseVars, compressVars, truncateVars, semanticVars, pipelineVars,
                   mainVars, releaseVars, toolVars>>

NextPrompt == Build

SpecPrompt == InitPrompt /\ [][NextPrompt]_vars

----------------------------------------------------------------------------
(* compressDiffs as one call, and the string it returns *)

\* the lines of a diff text as entries of the compressor
WrapLines(text) == [k \in 1..Len(text) |-> [kind |-> "line", text |-> text[k]]]
WithWrappedDiff(file) == [file EXCEPT !.diff = WrapLines(file.diff)]

\* diff-parser.ts lines 131-149: the for-loop
RECURSIVE compressFrom(_, _, _)
compressFrom(fs, k, st) ==
    IF k > Len(fs) THEN st
    ELSE compressFrom(fs, k + 1, compressFile(st, fs[k]))

\* diff-parser.ts lines 127-153
compressDiffs(fs) ==
    JoinBlank(compressFrom(fs, 1, [diffs |-> <<>>, totalLines |-> 0]).diffs, 1)

\* the characters of a line of the compressor: the template strings of
\* lines 119, 133, 141 and 148-149
RenderLine(l) ==
    CASE l.kind = "line" -> l.text
      [] l.kind = "marker" -> <<".",".","."," ","[">> \o ToDecimal(l.omitted) \o <<" ","l","i","n","e","s"," ","o","m","i","t","t","e","d","]"," ",".",".",".">>
      [] l.kind = "header" ->
           <<"-","-","-"," ">> \o (IF l.oldPath # undefined
                        THEN l.oldPath \o <<" ","-",">"," ">> \o l.path ELSE l.path)
      [] l.kind = "deleted" -> <<"-","-","-"," ">> \o l.path \o <<" ","(","d","e","l","e","t","e","d",")">>
      [] l.kind = "omitted" -> <<"-","-","-"," ">> \o l.path \o <<" ","(","o","m","i","t","t","e","d",")">>
      [] l.kind = "blank" -> <<>>

Render(lines) == [k \in 1..Len(lines) |-> RenderLine(lines[k])]

\* compressDiffs on the files parseUnifiedDiff returns, as a string
compressDiffsText(fs) ==
    Render(compressDiffs([k \in 1..Len(fs) |-> WithWrappedDiff(fs[k])]))

----------------------------------------------------------------------------
(* The exclusion patterns as RegExp objects *)

\* diff-parser.ts lines 4-20: the fifteen RegExp objects in the order of the
\* array, each as the set of its alternatives
EXCLUDED_REGEXPS ==
    << { Pat(<<"b","u","n",".","l","o","c","k">>, TRUE) },
       { Pat(<<"p","a","c","k","a","g","e","-","l","o","c","k",".","j","s","o","n">>, TRUE) },
       { Pat(<<"y","a","r","n",".","l","o","c","k">>, TRUE) },
       { Pat(<<"p","n","p","m","-","l","o","c","k",".","y","a","m","l">>, TRUE) },
       { Pat(<<"u","v",".","l","o","c","k">>, TRUE) },
       { Pat(<<".","p","n","g">>, TRUE), Pat(<<".","j","p","g">>, TRUE), Pat(<<".","j","p","e","g">>, TRUE), Pat(<<".","g","i","f">>, TRUE),
         Pat(<<".","i","c","o">>, TRUE), Pat(<<".","w","e","b","p">>, TRUE), Pat(<<".","s","v","g">>, TRUE) },
       { Pat(<<".","w","o","f","f">>, TRUE), Pat(<<".","w","o","f","f","2">>, TRUE), Pat(<<".","t","t","f">>, TRUE), Pat(<<".","e","o","t">>, TRUE),
         Pat(<<".","o","t","f">>, TRUE) },
       { Pat(<<".","m","p","3">>, TRUE), Pat(<<".","m","p","4">>, TRUE), Pat(<<".","w","a","v">>, TRUE), Pat(<<".","w","e","b","m">>, TRUE) },
       { Pat(<<".","D","S","_","S","t","o","r","e">>, TRUE) },
       { Pat(<<".","m","a","p">>, TRUE) },
       { Pat(<<".","t","s","b","u","i","l","d","i","n","f","o">>, TRUE) },
       { Pat(<<"d","i","s","t","/">>, FALSE) },
       { Pat(<<"b","u","i","l","d","/">>, FALSE) },
       { Pat(<<".","e","x","p","o","/">>, FALSE) },
       { Pat(<<"n","o","d","e","_","m","o","d","u","l","e","s","/">>, FALSE) } >>

\* the flags of the literals, with the g flag
EXCLUDED_FLAGS_Global == { "g" }

\* the flags of the literals of lines 5-19: none
EXCLUDED_FLAGS == {}

\* lastIndex of every RegExp object when the module is loaded
InitialLastIndex == [k \in 1..Len(EXCLUDED_REGEXPS) |-> 0]

\* the alternative p of a RegExp matches str at position i (from 1)
MatchesAt(p, str, i) ==
    /\ OccursAt(str, p.lit, i)
    /\ p.atEnd => i + Len(p.lit) - 1 = Len(str)

\* RegExp.prototype.test: without the g flag the search starts at the
\* beginning and lastIndex is left alone; with it the search starts at
\* lastIndex, which becomes the end of the match, or 0 when there is none
RegExpTest(alts, flags, str, lastIdx) ==
    IF "g" \notin flags
    THEN [found |-> \E p \in alts : Test(p, str), lastIndex |-> lastIdx]
    ELSE LET starts == { i \in (lastIdx + 1)..Len(str) : \E p \in alts : MatchesAt(p, str, i) }
         IN IF starts = {} THEN [found |-> FALSE, lastIndex |-> 0]
            ELSE LET i == SetMin(starts)
                     p == CHOOSE q \in alts : MatchesAt(q, str, i)
                 IN [found |-> TRUE, lastIndex |-> i + Len(p.lit) - 1]

\* EXCLUDED_PATTERNS.some((p) => p.test(path)): the objects are tested in
\* the order of the array until one matches
RECURSIVE SomeFrom(_, _, _, _)
SomeFrom(regexps, k, path, lastIdx) ==
    IF k > Len(regexps) THEN [found |-> FALSE, lastIndex |-> lastIdx]
    ELSE LET r == RegExpTest(regexps[k], EXCLUDED_FLAGS, path, lastIdx[k])
             next == [lastIdx EXCEPT ![k] = r.lastIndex]
         IN IF r.found THEN [found |-> TRUE, lastIndex |-> next]
            ELSE SomeFrom(regexps, k + 1, path, next)

\* diff-parser.ts lines 88-104 with the state of the RegExp objects:
\* SUMMARY_ONLY_PATTERNS is empty, so its some() is false and touches nothing
RECURSIVE classifyWithState(_, _, _, _)
classifyWithState(fs, k, acc, lastIdx) ==
    IF k > Len(fs) THEN [classified |-> acc, lastIndex |-> lastIdx]
    ELSE LET r == SomeFrom(EXCLUDED_REGEXPS, 1, fs[k].path, lastIdx)
             tier == IF r.found THEN "excluded" ELSE "included"
         IN classifyWithState(fs, k + 1, [acc EXCEPT ![tier] = Append(@, fs[k])],
                              r.lastIndex)

----------------------------------------------------------------------------
(* The core pipeline: part_008 lines 474-500 *)

\* lines 483-489 and fileList.join('\n')
pathsOf(fs) == JoinChars([k \in 1..Len(fs) |-> fs[k].path], <<","," ">>)
fileListOf(cl) ==
    LET list ==
          (IF Len(cl.included) > 0 THEN << pathsOf(cl.included) >> ELSE <<>>)
          \o (IF Len(cl.summarized) > 0
              THEN << <<"(","s","u","m","m","a","r","i","z","e","d",":"," ">> \o pathsOf(cl.summarized) \o <<")">> >> ELSE <<>>)
          \o (IF Len(cl.excluded) > 0
              THEN << <<"(","e","x","c","l","u","d","e","d",":"," ">> \o ToDecimal(Len(cl.excluded)) \o <<" ","f","i","l","e","s",")">> >>
              ELSE <<>>)
    IN IF list = <<>> THEN EmptyString ELSE list

\* lines 483-506 for a ParsedDiff and its ClassifiedFiles
promptOf(p, cl, userInput, selectedType, recentCommits) ==
    buildPrompt(userInput,
                formatStats(cl, p.totalAdditions, p.totalDeletions),
                extractSemantics(cl.included),
                fileListOf(cl),
                compressDiffsText(cl.included),
                selectedType, recentCommits)

\* one invocation of the pipeline, from the diff text to the prompt, with
\* lastIndex of the module's RegExp objects before and after
corePipeline(in, lastIdx) ==
    LET p == parseUnifiedDiff(in.diffOutput)
        c == classifyWithState(p.files, 1, EmptyClassified, lastIdx)
    IN [prompt |-> promptOf(p, c.classified, in.userInput, in.selectedType,
                            in.recentCommits),
        lastIndex |-> c.lastIndex]

----------------------------------------------------------------------------
(* Specification of repeated invocations of the core pipeline *)

\* number of invocations in one process
MaxInvocations == 3

DIFF_MODIFIED ==
    << <<"d","i","f","f"," ","-","-","g","i","t"," ","a","/","x",".","t","s"," ","b","/","x",".","t","s">>, <<"-","-","-"," ","a","/","x",".","t","s">>, <<"+","+","+"," ","b","/","x",".","t","s">>,
       <<"+","f","u","n","c","t","i","o","n"," ","f","(">>, <<"-","b">> >>
DIFF_EXCLUDED == << <<"d","i","f","f"," ","-","-","g","i","t"," ","a","/","y",".","m","a","p"," ","b","/","y",".","m","a","p">>, <<"+","a">> >>
DIFF_MIXED == DIFF_MODIFIED \o DIFF_EXCLUDED
DIFF_NO_HEADER == << <<"h","e","l","l","o">> >>

PipelineInput(d, note, type, recent) ==
    [diffOutput |-> d, userInput |-> note, selectedType |-> type, recentCommits |-> recent]

\* inputs that differ from the first in one component each
PipelineInputs ==
    { PipelineInput(DIFF_MIXED, EmptyString, AUTO, <<>>),
      PipelineInput(DIFF_MODIFIED, EmptyString, AUTO, <<>>),
      PipelineInput(DIFF_EXCLUDED, EmptyString, AUTO, <<>>),
      PipelineInput(DIFF_MIXED, << <<"f","i","x"," ","l","o","g","i","n">> >>, AUTO, <<>>),
      PipelineInput(DIFF_MIXED, EmptyString, <<"f","e","a","t">>, <<>>),
      PipelineInput(DIFF_MIXED, EmptyString, AUTO, << <<"f","i","x",":"," ","l","o","g","i","n">> >>) }

InitPipeline ==
    /\ pc = "idle"
    /\ lastIndex = InitialLastIndex
    /\ history = <<>>
    /\ files = <<>>
    /\ ParserIdle /\ SemanticIdle /\ PromptIdle /\ MainIdle /\ ReleaseIdle /\ ToolIdle

\* one invocation
Invoke ==
    /\ pc = "idle"
    /\ Len(history) < MaxInvocations
    /\ \E in \in PipelineInputs :
         LET out == corePipeline(in, lastIndex)
         IN /\ history' = Append(history, [input |-> in, prompt |-> out.prompt])
            /\ lastIndex' = out.lastIndex
    /\ UNCHANGED <<pc, parseVars, compressVars, truncateVars, semanticVars, promptVars,
                   mainVars, releaseVars, toolVars>>

NextPipeline == Invoke

SpecPipeline == InitPipeline /\ [][NextPipeline]_vars

----------------------------------------------------------------------------
(* Specification of main, from the staging prompt on: part_008 lines 368-640 *)

\* generation requests one run may issue (the first one and the retries)
MaxRequests == 2
\* entries of the log of one run
MaxEvents == 6

NoExit == -1

\* a promise: pending, fulfilled with a value or rejected
NoPromise == [state |-> "none", value |-> ""]
Pending == [state |-> "pending", value |-> ""]
Fulfilled(value) == [state |-> "fulfilled", value |-> value]
Rejected == [state |-> "rejected", value |-> ""]

\* an entry of the log: a call of generateMessage ("request"), the end of
\* displayContextPanel ("panel"), displayCommitMessage(msg) ("display"), a
\* cancelled edit prompt ("edit cancelled"), commit(msg) ("commit"), the
\* answer to 'Push to remote?' ("confirm push"), push() ("push") and
\* copyToClipboard(msg) ("copy")
Event(e, msg, ok) == [e |-> e, msg |-> msg, ok |-> ok]

\* what validateMessage(response.text) may return, and what the user may
\* type into the edit prompt
GeneratedMessages == { "feat: add login", "fix: login" }
EditedMessages == { "feat: add login (edited)" }
\* the symbol p.isCancel recognises
CANCEL == "<cancel>"

\* process.exit(code) after p.outro(message)
Exit(code, message) ==
    /\ pc' = "exited"
    /\ exitCode' = code
    /\ outcome' = message

\* lines 468-480 without the test of lines 477-480
afterDiffNoRelevanceCheck(d) ==
    IF Trim(d) = EmptyString
    THEN [exit |-> TRUE, outcome |-> "No changes to commit",
          parsed |-> EmptyParsedDiff, classified |-> EmptyClassified]
    ELSE LET p == parseUnifiedDiff(d)
         IN [exit |-> FALSE, outcome |-> "", parsed |-> p, classified |-> classifyFiles(p.files)]

\* lines 468-480: what main does with the diff text it got
afterDiff(d) ==
    IF Trim(d) = EmptyString
    THEN [exit |-> TRUE, outcome |-> "No changes to commit",
          parsed |-> EmptyParsedDiff, classified |-> EmptyClassified]
    ELSE LET p == parseUnifiedDiff(d)
             cl == classifyFiles(p.files)
         IN IF Len(cl.included) = 0 /\ Len(cl.summarized) = 0
            THEN [exit |-> TRUE, outcome |-> "No relevant changes (all files excluded)",
                  parsed |-> p, classified |-> cl]
            ELSE [exit |-> FALSE, outcome |-> "", parsed |-> p, classified |-> cl]

\* the diff texts git may return
MainDiffs ==
    { EmptyString, << <<" "," ">>, <<>> >>, DIFF_MODIFIED, DIFF_EXCLUDED, DIFF_MIXED, DIFF_NO_HEADER }

InitMain ==
    /\ pc = "stage"
    /\ hasStaged \in BOOLEAN
    /\ headExists \in BOOLEAN
    /\ exitCode = NoExit /\ outcome = ""
    /\ requests = 0 /\ commits = 0 /\ pushes = 0
    /\ finalMessage = ""
    /\ events = <<>> /\ aiPromise = NoPromise /\ panel = "none"
    /\ files = <<>>
    /\ ParserIdle /\ SemanticIdle /\ PromptIdle /\ PipelineIdle /\ ReleaseIdle /\ ToolIdle

\* lines 376-416: the file selection
SelectFiles ==
    /\ pc = "stage"
    /\ \/ \* nothing to offer, or 'Skip'
          /\ pc' = "type"
          /\ UNCHANGED <<hasStaged, exitCode, outcome>>
       \/ /\ ~hasStaged /\ headExists
          /\ \/ Exit(0, "Cancelled") /\ UNCHANGED hasStaged
             \/ Exit(1, "Aborted") /\ UNCHANGED hasStaged
             \/ /\ hasStaged' = TRUE
                /\ pc' = "type"
                /\ UNCHANGED <<exitCode, outcome>>
    /\ UNCHANGED <<headExists, requests, commits, pushes, finalMessage, mainLog, parseVars,
                   compressVars, truncateVars, semanticVars, promptVars, pipelineVars,
                   releaseVars, toolVars>>

\* lines 419-437
SelectType ==
    /\ pc = "type"
    /\ \/ Exit(0, "Cancelled") /\ UNCHANGED args
       \/ /\ \E t \in { AUTO, <<"f","e","a","t">> } : args' = [args EXCEPT !.selectedType = t]
          /\ pc' = "describe"
          /\ UNCHANGED <<exitCode, outcome>>
    /\ UNCHANGED <<hasStaged, headExists, requests, commits, pushes, finalMessage, mainLog, prompt,
                   parseVars, compressVars, truncateVars, semanticVars, pipelineVars,
                   releaseVars, toolVars>>

\* lines 440-448
Describe ==
    /\ pc = "describe"
    /\ \/ Exit(0, "Cancelled") /\ UNCHANGED args
       \/ /\ \E note \in { EmptyString, << <<"f","i","x"," ","l","o","g","i","n">> >> } :
               args' = [args EXCEPT !.userInput = note]
          /\ pc' = "diff"
          /\ UNCHANGED <<exitCode, outcome>>
    /\ UNCHANGED <<hasStaged, headExists, requests, commits, pushes, finalMessage, mainLog, prompt,
                   parseVars, compressVars, truncateVars, semanticVars, pipelineVars,
                   releaseVars, toolVars>>

\* lines 451-480: the diff is fetched, parsed and classified
GetDiff ==
    /\ pc = "diff"
    /\ \/ /\ ~hasStaged /\ ~headExists
          /\ Exit(0, "Initial commit: stage files first")
          /\ UNCHANGED parseVars
       \/ /\ hasStaged \/ headExists
          /\ \/ Exit(1, "Aborted") /\ UNCHANGED parseVars
             \/ \E d \in MainDiffs :
                  LET r == afterDiff(d)
                  IN /\ diffOutput' = d
                     /\ parsed' = r.parsed
                     /\ classified' = r.classified
                     /\ IF r.exit THEN Exit(0, r.outcome)
                        ELSE pc' = "recent" /\ UNCHANGED <<exitCode, outcome>>
    /\ UNCHANGED <<hasStaged, headExists, requests, commits, pushes, finalMessage, mainLog,
                   compressVars, truncateVars, semanticVars, promptVars, pipelineVars,
                   releaseVars, toolVars>>

\* lines 482-548: the prompt is built, generateMessage() is called without
\* being awaited and displayContextPanel is called
StartGeneration ==
    /\ pc = "recent"
    /\ \E recent \in { <<>>, << <<"f","i","x",":"," ","l","o","g","i","n">> >> } :
         /\ args' = [args EXCEPT !.recentCommits = recent]
         /\ prompt' = promptOf(parsed, classified, args.userInput, args.selectedType, recent)
    /\ requests' = requests + 1
    /\ aiPromise' = Pending
    /\ events' = Append(events, Event("request", "", TRUE))
    /\ panel' = "rendering"
    /\ pc' = "panel"
    /\ UNCHANGED <<hasStaged, headExists, exitCode, outcome, commits, pushes, finalMessage,
                   parseVars, compressVars, truncateVars, semanticVars, pipelineVars,
                   releaseVars, toolVars>>

\* lines 509-542: the request comes back while main is in
\* displayContextPanel or waits at line 552
GenerationSettles ==
    /\ pc \in { "panel", "await" }
    /\ aiPromise.state = "pending"
    /\ \/ \E m \in GeneratedMessages : aiPromise' = Fulfilled(m)
       \/ aiPromise' = Rejected
    /\ UNCHANGED <<pc, hasStaged, headExists, exitCode, outcome, requests, commits, pushes,
                   finalMessage, events, panel, parseVars, compressVars, truncateVars,
                   semanticVars, promptVars, pipelineVars, releaseVars, toolVars>>

\* the promise was rejected while nothing awaits it: the runtime may end the
\* process with code 1 on the unhandled rejection, before line 552 is reached
UnhandledRejection ==
    /\ pc = "panel"
    /\ aiPromise.state = "rejected"
    /\ Exit(1, "")
    /\ UNCHANGED <<hasStaged, headExists, requests, commits, pushes, finalMessage, mainLog,
                   parseVars, compressVars, truncateVars, semanticVars, promptVars,
                   pipelineVars, releaseVars, toolVars>>

\* line 548: displayContextPanel returns
PanelDone ==
    /\ pc = "panel"
    /\ panel' = "done"
    /\ events' = Append(events, Event("panel", "", TRUE))
    /\ pc' = "await"
    /\ UNCHANGED <<hasStaged, headExists, exitCode, outcome, requests, commits, pushes,
                   finalMessage, aiPromise, parseVars, compressVars, truncateVars,
                   semanticVars, promptVars, pipelineVars, releaseVars, toolVars>>

\* lines 550-556 with every settled promise taken for a fulfilled one
afterAwaitNoCatch(promise) == [exit |-> FALSE, commitMessage |-> promise.value]

\* lines 550-556: await aiPromise
afterAwait(promise) ==
    IF promise.state = "fulfilled"
    THEN [exit |-> FALSE, commitMessage |-> promise.value]
    ELSE [exit |-> TRUE, commitMessage |-> ""]

\* lines 550-562: the message is displayed and the action menu entered
AwaitPromise ==
    /\ pc = "await"
    /\ aiPromise.state \in { "fulfilled", "rejected" }
    /\ LET r == afterAwait(aiPromise)
       IN IF r.exit
          THEN Exit(1, "") /\ UNCHANGED <<finalMessage, events>>
          ELSE /\ events' = Append(events, Event("display", r.commitMessage, TRUE))
               /\ finalMessage' = r.commitMessage
               /\ pc' = "menu"
               /\ UNCHANGED <<exitCode, outcome>>
    /\ UNCHANGED <<hasStaged, headExists, requests, commits, pushes, aiPromise, panel,
                   parseVars, compressVars, truncateVars, semanticVars, promptVars,
                   pipelineVars, releaseVars, toolVars>>

\* the menu with 'Commit' offered whether files are staged or not
menuOptionsAlwaysCommit(staged) == { "commit", "edit", "retry", "copy", "cancel" }

\* lines 565-574: the options of the action menu
menuOptions(staged) ==
    (IF staged THEN { "commit" } ELSE {}) \cup { "edit", "retry", "copy", "cancel" }

\* lines 576-579 and 630-639: cancel and copy
MenuOther ==
    /\ pc = "menu"
    /\ \/ /\ "cancel" \in menuOptions(hasStaged)
          /\ Exit(0, "Done")
          /\ UNCHANGED events
       \/ /\ "copy" \in menuOptions(hasStaged)
          /\ events' = Append(events, Event("copy", finalMessage, TRUE))
          /\ \/ Exit(0, "Copied to clipboard!")
             \/ Exit(0, finalMessage)
    /\ UNCHANGED <<hasStaged, headExists, requests, commits, pushes, finalMessage, aiPromise,
                   panel, parseVars, compressVars, truncateVars, semanticVars, promptVars,
                   pipelineVars, releaseVars, toolVars>>

\* lines 587-588 with a cancelled prompt taken for an empty message
afterEditCancelClears(message, edited) == IF edited = CANCEL THEN "" ELSE edited

\* lines 587-588: the message after the edit prompt
afterEdit(message, edited) == IF edited = CANCEL THEN message ELSE edited

\* lines 581-591: edit
MenuEdit ==
    /\ pc = "menu"
    /\ "edit" \in menuOptions(hasStaged)
    /\ Len(events) < MaxEvents
    /\ \E edited \in EditedMessages \cup { CANCEL } :
         /\ finalMessage' = afterEdit(finalMessage, edited)
         /\ events' = Append(events,
                             IF edited = CANCEL THEN Event("edit cancelled", "", FALSE)
                             ELSE Event("display", edited, TRUE))
    /\ UNCHANGED <<pc, hasStaged, headExists, exitCode, outcome, requests, commits, pushes,
                   aiPromise, panel, parseVars, compressVars, truncateVars, semanticVars,
                   promptVars, pipelineVars, releaseVars, toolVars>>

\* lines 594-599: the message after generateMessage() settled
afterRetry(message, promise) ==
    IF promise.state = "fulfilled" THEN promise.value ELSE message

\* lines 593-601: retry; generateMessage() is awaited in place
MenuRetry ==
    /\ pc = "menu"
    /\ "retry" \in menuOptions(hasStaged)
    /\ requests < MaxRequests
    /\ Len(events) + 1 < MaxEvents
    /\ requests' = requests + 1
    /\ \E promise \in { Fulfilled(m) : m \in GeneratedMessages } \cup { Rejected } :
         /\ finalMessage' = afterRetry(finalMessage, promise)
         /\ events' = Append(events, Event("request", "", TRUE))
                        \o (IF promise.state = "fulfilled"
                            THEN <<Event("display", promise.value, TRUE)>> ELSE <<>>)
    /\ UNCHANGED <<pc, hasStaged, headExists, exitCode, outcome, commits, pushes, aiPromise,
                   panel, parseVars, compressVars, truncateVars, semanticVars, promptVars,
                   pipelineVars, releaseVars, toolVars>>

\* lines 603-610: commit(finalMessage)
MenuCommit ==
    /\ pc = "menu"
    /\ "commit" \in menuOptions(hasStaged)
    /\ \E ok \in BOOLEAN :
         /\ events' = Append(events, Event("commit", finalMessage, ok))
         /\ IF ok
            THEN /\ commits' = commits + 1
                 /\ pc' = "pushConfirm"
                 /\ UNCHANGED <<exitCode, outcome>>
            ELSE Exit(1, "Aborted") /\ UNCHANGED commits
    /\ UNCHANGED <<hasStaged, headExists, requests, pushes, finalMessage, aiPromise, panel,
                   parseVars, compressVars, truncateVars, semanticVars, promptVars,
                   pipelineVars, releaseVars, toolVars>>

\* lines 612-627
PushOrNot ==
    /\ pc = "pushConfirm"
    /\ \/ /\ events' = Append(events, Event("confirm push", "", FALSE))
          /\ Exit(0, "Committed!")
          /\ UNCHANGED pushes
       \/ \E ok \in BOOLEAN :
            /\ events' = events \o <<Event("confirm push", "", TRUE), Event("push", "", ok)>>
            /\ IF ok
               THEN pushes' = pushes + 1 /\ Exit(0, "Committed and pushed!")
               ELSE UNCHANGED pushes /\ Exit(1, "Committed locally, but push failed")
    /\ UNCHANGED <<hasStaged, headExists, requests, commits, finalMessage, aiPromise, panel,
                   parseVars, compressVars, truncateVars, semanticVars, promptVars,
                   pipelineVars, releaseVars, toolVars>>

NextMain ==
    \/ SelectFiles \/ SelectType \/ Describe \/ GetDiff \/ StartGeneration
    \/ GenerationSettles \/ UnhandledRejection \/ PanelDone \/ AwaitPromise
    \/ MenuOther \/ MenuEdit \/ MenuRetry \/ MenuCommit \/ PushOrNot

SpecMain == InitMain /\ [][NextMain]_vars

\* the event loop resumes main when what it awaits has settled: the panel
\* returns once its git commands have, and the continuation of line 552
\* runs once aiPromise has settled
SpecMainFair == SpecMain /\ WF_vars(PanelDone) /\ WF_vars(AwaitPromise)

----------------------------------------------------------------------------
(* Specification of interactiveRelease: release.ts lines 90-271 *)

\* longest section of .aic, in commands
MaxCommands == 2

\* A command of .aic is what running it gives: TRUE for exit code 0, FALSE
\* for another exit code or a failure to spawn.
\* part_004 lines 72-131 (dryRun is not set by interactiveRelease): the
\* commands run in order up to the first that fails; ran counts them
RECURSIVE executeFrom(_, _)
executeFrom(cmds, k) ==
    IF k > Len(cmds) THEN [ok |-> TRUE, ran |-> Len(cmds)]
    ELSE IF ~cmds[k] THEN [ok |-> FALSE, ran |-> k]
    ELSE executeFrom(cmds, k + 1)

executeSection(cmds) == executeFrom(cmds, 1)

\* the wrapper release.ts imports from aic-script.js: the result of
\* executeSection, shown with a spinner
executeSectionWithProgress(cmds) == executeSection(cmds)

\* the sections parseAicConfig() may return (no .aic file: both empty)
Sections == UNION { [1..n -> BOOLEAN] : n \in 0..MaxCommands }

Step(name, ok) == [step |-> name, ok |-> ok]

\* lines 156-164
afterScripts(ok) == IF ok THEN "changelog" ELSE "continueAnyway"

\* the commit step that goes on to the tag whether the commit succeeded or
\* not
afterCommitIgnoringFailure(ok) == "tag"

\* lines 215-225
afterCommit(ok) == IF ok THEN "tag" ELSE "exit1"

\* lines 228-236
afterTag(ok) == IF ok THEN "pushConfirm" ELSE "exit1"

\* lines 248-257
afterPush(ok) == IF ok THEN "publish" ELSE "exit1"

\* a step that has run: the log grows, and the release goes on or exits
\* with code 1
Goto(next) ==
    IF next = "exit1"
    THEN pc' = "exited" /\ exitCode' = 1 /\ UNCHANGED outcome
    ELSE pc' = next /\ UNCHANGED <<exitCode, outcome>>

\* what no step of the release touches
ReleaseFrame ==
    UNCHANGED <<aicConfig, hasStaged, headExists, requests, commits, pushes, finalMessage,
                mainLog, parseVars, compressVars, truncateVars, semanticVars, promptVars,
                pipelineVars, toolVars>>

InitRelease ==
    /\ pc = "preflight"
    /\ \E release \in Sections, publish \in Sections :
         aicConfig = [release |-> release, publish |-> publish]
    /\ steps = <<>>
    /\ confirmed = "unasked"
    /\ exitCode = NoExit /\ outcome = ""
    /\ hasStaged = FALSE /\ headExists = FALSE
    /\ requests = 0 /\ commits = 0 /\ pushes = 0 /\ finalMessage = ""
    /\ events = <<>> /\ aiPromise = NoPromise /\ panel = "none"
    /\ files = <<>>
    /\ ParserIdle /\ SemanticIdle /\ PromptIdle /\ PipelineIdle /\ ToolIdle

\* lines 92-120: the checks before the confirmation; what is wrong (not a
\* repository, no project detected, the tag v<newVersion> exists) or nothing
PreflightFindings == { "Not a git repository", "Project detection failed", "Tag exists", "" }
preflight(finding) == IF finding = "" THEN "confirm" ELSE "exit1"

Preflight ==
    /\ pc = "preflight"
    /\ ReleaseFrame
    /\ \E finding \in PreflightFindings :
         IF preflight(finding) = "exit1"
         THEN Exit(1, finding)
         ELSE pc' = "confirm" /\ UNCHANGED <<exitCode, outcome>>
    /\ UNCHANGED <<steps, confirmed>>

\* lines 132-135 with every answer taken for a yes
afterConfirmAnyAnswer(answer) == "version"

\* lines 132-135: p.isCancel(confirmed) || !confirmed
afterConfirm(answer) == IF answer = "yes" THEN "version" ELSE "exit0"

\* lines 127-135: the answer is yes, no or a cancel
ConfirmRelease ==
    /\ pc = "confirm"
    /\ ReleaseFrame
    /\ \E answer \in { "yes", "no", CANCEL } :
         /\ confirmed' = answer
         /\ IF afterConfirm(answer) = "exit0"
            THEN Exit(0, "Release cancelled")
            ELSE pc' = afterConfirm(answer) /\ UNCHANGED <<exitCode, outcome>>
    /\ UNCHANGED steps

\* lines 139-147
UpdateVersion ==
    /\ pc = "version"
    /\ ReleaseFrame /\ UNCHANGED confirmed
    /\ \E ok \in BOOLEAN :
         /\ steps' = Append(steps, Step("version", ok))
         /\ Goto(IF ok THEN "scripts" ELSE "exit1")

\* lines 150-156
ReleaseScripts ==
    /\ pc = "scripts"
    /\ ReleaseFrame /\ UNCHANGED confirmed
    /\ IF Len(aicConfig.release) > 0
       THEN LET r == executeSectionWithProgress(aicConfig.release)
            IN /\ steps' = Append(steps, Step("release scripts", r.ok))
               /\ Goto(afterScripts(r.ok))
       ELSE /\ pc' = "changelog"
            /\ UNCHANGED <<steps, exitCode, outcome>>

\* lines 157-163
ContinueAnyway ==
    /\ pc = "continueAnyway"
    /\ ReleaseFrame /\ UNCHANGED confirmed
    /\ \/ Goto("changelog")
       \/ Goto("exit1")
    /\ UNCHANGED steps

\* lines 167-211: the changelog is written, or the user cancels the
\* migration, or something throws
Changelog ==
    /\ pc = "changelog"
    /\ ReleaseFrame /\ UNCHANGED confirmed
    /\ \/ /\ steps' = Append(steps, Step("changelog", TRUE))
          /\ Goto("commit")
       \/ Exit(0, "") /\ UNCHANGED steps
       \/ /\ steps' = Append(steps, Step("changelog", FALSE))
          /\ Goto("continueWithout")

\* lines 204-210
ContinueWithout ==
    /\ pc = "continueWithout"
    /\ ReleaseFrame /\ UNCHANGED confirmed
    /\ \/ Goto("commit")
       \/ Goto("exit1")
    /\ UNCHANGED steps

\* lines 214-225
ReleaseCommit ==
    /\ pc = "commit"
    /\ ReleaseFrame /\ UNCHANGED confirmed
    /\ \E ok \in BOOLEAN :
         /\ steps' = Append(steps, Step("commit", ok))
         /\ Goto(afterCommit(ok))

\* lines 228-236
CreateTag ==
    /\ pc = "tag"
    /\ ReleaseFrame /\ UNCHANGED confirmed
    /\ \E ok \in BOOLEAN :
         /\ steps' = Append(steps, Step("tag", ok))
         /\ Goto(afterTag(ok))

\* lines 239-246
ConfirmPush ==
    /\ pc = "pushConfirm"
    /\ ReleaseFrame /\ UNCHANGED confirmed
    /\ \/ Exit(0, "Released")
       \/ pc' = "push" /\ UNCHANGED <<exitCode, outcome>>
    /\ UNCHANGED steps

\* lines 248-257
ReleasePush ==
    /\ pc = "push"
    /\ ReleaseFrame /\ UNCHANGED confirmed
    /\ \E ok \in BOOLEAN :
         /\ steps' = Append(steps, Step("push", ok))
         /\ Goto(afterPush(ok))

\* lines 260-270: the [publish] scripts, when the user agrees, and the end
Publish ==
    /\ pc = "publish"
    /\ ReleaseFrame /\ UNCHANGED confirmed
    /\ \/ /\ Len(aicConfig.publish) > 0
          /\ steps' = Append(steps, Step("publish scripts",
                                         executeSectionWithProgress(aicConfig.publish).ok))
       \/ UNCHANGED steps
    /\ pc' = "returned"
    /\ outcome' = "Released"
    /\ UNCHANGED exitCode

NextRelease ==
    \/ Preflight \/ ConfirmRelease \/ UpdateVersion \/ ReleaseScripts \/ ContinueAnyway
    \/ Changelog \/ ContinueWithout \/ ReleaseCommit \/ CreateTag \/ ConfirmPush
    \/ ReleasePush \/ Publish

SpecRelease == InitRelease /\ [][NextRelease]_vars

----------------------------------------------------------------------------
(* Specification of bumpVersion: project.ts lines 162-176 *)

\* largest component of a version handed to bumpVersion
MaxPart == 10

\* a JavaScript number as far as bumpVersion meets one: NaN or an integer
NaN == [nan |-> TRUE, int |-> 0]
Num(n) == [nan |-> FALSE, int |-> n]

\* s.split(sep) of a string of characters, sep one character
RECURSIVE SplitCharsFrom(_, _, _, _)
SplitCharsFrom(s, sep, k, piece) ==
    IF k > Len(s) THEN <<piece>>
    ELSE IF s[k] = sep THEN <<piece>> \o SplitCharsFrom(s, sep, k + 1, <<>>)
    ELSE SplitCharsFrom(s, sep, k + 1, Append(piece, s[k]))

Split(s, sep) == SplitCharsFrom(s, sep, 1, <<>>)

DigitValue(c) == CHOOSE d \in 0..9 : DigitChars[d + 1] = c
IsDigit(c) == \E d \in 0..9 : DigitChars[d + 1] = c

\* the value of the digits s[k..], read up to the first character that is
\* not a digit, after the digits read so far (value acc)
RECURSIVE DigitsFrom(_, _, _)
DigitsFrom(s, k, acc) ==
    IF k > Len(s) \/ ~IsDigit(s[k]) THEN acc
    ELSE DigitsFrom(s, k + 1, 10 * acc + DigitValue(s[k]))

\* parseInt(s, 10): leading white space is skipped, a sign is read, then
\* the longest run of digits; NaN when there is no digit
RECURSIVE parseIntFrom(_, _)
parseIntFrom(s, k) ==
    IF k > Len(s) THEN NaN
    ELSE IF s[k] \in SpaceChars THEN parseIntFrom(s, k + 1)
    ELSE LET signed == s[k] \in { "+", "-" }
             d == IF signed THEN k + 1 ELSE k
         IN IF d > Len(s) \/ ~IsDigit(s[d]) THEN NaN
            ELSE IF s[k] = "-" THEN Num(0 - DigitsFrom(s, d, 0))
            ELSE Num(DigitsFrom(s, d, 0))

parseInt(s) == parseIntFrom(s, 1)

\* parts[i] || '0' with i counted from 0
PartOrZero(parts, i) ==
    IF i + 1 > Len(parts) \/ parts[i + 1] = <<>> THEN <<"0">> ELSE parts[i + 1]

\* x + 1 of a number
PlusOne(x) == IF x.nan THEN NaN ELSE Num(x.int + 1)

\* `${x}` of a number
NumberToString(x) ==
    IF x.nan THEN <<"N","a","N">>
    ELSE IF x.int < 0 THEN <<"-">> \o ToDecimal(0 - x.int)
    ELSE ToDecimal(x.int)

\* `${a}.${b}.${c}`
Dotted(a, b, c) == a \o <<".">> \o b \o <<".">> \o c

\* bumpVersion with the patch number kept by a minor release
bumpVersionKeepsPatch(version, type) ==
    LET parts == Split(version, ".")
        major == parseInt(PartOrZero(parts, 0))
        minor == parseInt(PartOrZero(parts, 1))
        patch == parseInt(PartOrZero(parts, 2))
    IN CASE type = "major" ->
              Dotted(NumberToString(PlusOne(major)), <<"0">>, <<"0">>)
         [] type = "minor" ->
              Dotted(NumberToString(major), NumberToString(PlusOne(minor)),
                     NumberToString(patch))
         [] type = "patch" ->
              Dotted(NumberToString(major), NumberToString(minor),
                     NumberToString(PlusOne(patch)))

\* lines 162-176
bumpVersion(version, type) ==
    LET parts == Split(version, ".")
        major == parseInt(PartOrZero(parts, 0))
        minor == parseInt(PartOrZero(parts, 1))
        patch == parseInt(PartOrZero(parts, 2))
    IN CASE type = "major" ->
              Dotted(NumberToString(PlusOne(major)), <<"0">>, <<"0">>)
         [] type = "minor" ->
              Dotted(NumberToString(major), NumberToString(PlusOne(minor)), <<"0">>)
         [] type = "patch" ->
              Dotted(NumberToString(major), NumberToString(minor),
                     NumberToString(PlusOne(patch)))

\* type ReleaseType
ReleaseTypes == { "patch", "minor", "major" }

\* the versions x.y.z, and some that a metadata file may hold as well
PlainVersions ==
    { Dotted(ToDecimal(x), ToDecimal(y), ToDecimal(z)) : x, y, z \in 0..MaxPart }
OtherVersions == { <<"1",".","2">>, <<"1",".","2",".","3","-","r","c",".","1">>, <<"0","1",".","0","2",".","0","3">>, <<"v","1",".","2",".","3">>, <<>> }

InitBump ==
    /\ pc = "call"
    /\ currentVersion \in PlainVersions \cup OtherVersions
    /\ releaseType \in ReleaseTypes
    /\ newVersion = <<>>
    /\ files = <<>>
    /\ ParserIdle /\ SemanticIdle /\ PromptIdle /\ PipelineIdle /\ MainIdle /\ ReleaseIdle
    /\ ChangelogIdle /\ SecretIdle /\ ExecuteIdle

Bump ==
    /\ pc = "call"
    /\ newVersion' = bumpVersion(currentVersion, releaseType)
    /\ pc' = "bumped"
    /\ UNCHANGED <<currentVersion, releaseType, parseVars, compressVars, truncateVars,
                   semanticVars, promptVars, pipelineVars, mainVars, releaseVars,
                   changelogVars, secretVars, executeVars>>

NextBump == Bump

SpecBump == InitBump /\ [][NextBump]_vars

----------------------------------------------------------------------------
(* Specification of writeChangelog: changelog.ts lines 238-275 *)

\* earlier entries in the CHANGELOG.md handed to writeChangelog
MaxEntries == 2

\* a + b of two strings: the last line of a runs on into the first of b
Concat(a, b) == SubSeq(a, 1, Len(a) - 1) \o <<a[Len(a)] \o b[1]>> \o Tail(b)

RECURSIVE ConcatAll(_)
ConcatAll(texts) ==
    IF texts = <<>> THEN EmptyString ELSE Concat(Head(texts), ConcatAll(Tail(texts)))

\* lines 9-16
CHANGELOG_HEADER ==
    << <<"#"," ","C","h","a","n","g","e","l","o","g">>,
       <<>>,
       <<"A","l","l"," ","n","o","t","a","b","l","e"," ","c","h","a","n","g","e","s"," ","t","o"," ","t","h","i","s"," ","p","r","o","j","e","c","t"," ","w","i","l","l"," ","b","e"," ","d","o","c","u","m","e","n","t","e","d"," ","i","n"," ","t","h","i","s"," ","f","i","l","e",".">>,
       <<>>,
       <<"T","h","e"," ","f","o","r","m","a","t"," ","i","s"," ","b","a","s","e","d"," ","o","n"," ","[","K","e","e","p"," ","a"," ","C","h","a","n","g","e","l","o","g","]","(","h","t","t","p","s",":","/","/","k","e","e","p","a","c","h","a","n","g","e","l","o","g",".","c","o","m","/","e","n","/","1",".","1",".","0","/",")",",">>,
       <<"a","n","d"," ","t","h","i","s"," ","p","r","o","j","e","c","t"," ","a","d","h","e","r","e","s"," ","t","o"," ","[","S","e","m","a","n","t","i","c"," ","V","e","r","s","i","o","n","i","n","g","]","(","h","t","t","p","s",":","/","/","s","e","m","v","e","r",".","o","r","g","/","s","p","e","c","/","v","2",".","0",".","0",".","h","t","m","l",")",".">>,
       <<>>,
       <<>> >>

\* lines 238-244: the file is <<>> when CHANGELOG.md does not exist
readChangelog(file) == IF file = <<>> THEN CHANGELOG_HEADER ELSE file[1]

\* existingContent.match(/^# Changelog[\s\S]*?\n\n/): the text starts with
\* '# Changelog' and two newlines in a row follow, which is an empty line
\* that is neither the first nor the last
headerEndMatch(text) ==
    /\ StartsWith(text[1], <<"#"," ","C","h","a","n","g","e","l","o","g">>)
    /\ \E k \in 2..(Len(text) - 1) : text[k] = <<>>

\* existingContent.match(/\n## \[/): the lines but the first that start
\* with '## ['
EntryLines(text) == { k \in 2..Len(text) : StartsWith(text[k], <<"#","#"," ","[">>) }

\* lines 249-273: the content written
writeChangelog(existingContent, entry) ==
    LET found == headerEndMatch(existingContent)
        first == EntryLines(existingContent)
        k == SetMin(first)
        header ==
            IF found
            THEN IF first # {}
                 THEN SubSeq(existingContent, 1, k - 1) \o << <<>> >>
                 ELSE existingContent
            ELSE CHANGELOG_HEADER
        rest ==
            IF found
            THEN IF first # {}
                 THEN SubSeq(existingContent, k, Len(existingContent))
                 ELSE EmptyString
            ELSE IF StartsWith(existingContent[1], <<"#">>) THEN EmptyString
                 ELSE existingContent
    IN Concat(Concat(header, entry), rest)

\* formatChangelogEntry (lines 223-226) of two releases
NewEntries ==
    { << <<"#","#"," ","[","1",".","1",".","0","]"," ","-"," ","2","0","2","5","-","0","2","-","0","1">>, <<>>, <<"#","#","#"," ","A","d","d","e","d">>, <<"-"," ","l","o","g","i","n">>, <<>>, <<>> >>,
      << <<"#","#"," ","[","2",".","0",".","0","]"," ","-"," ","2","0","2","5","-","0","3","-","0","1">>, <<>>, <<"#","#","#"," ","C","h","a","n","g","e","d">>, <<"-"," ","a","p","i">>, <<>>, <<>> >> }

\* what a CHANGELOG.md may start with: the header of Keep a Changelog, short
\* or in full, other titles, and nothing
FileHeads ==
    { << <<"#"," ","C","h","a","n","g","e","l","o","g">>, <<>>, <<>> >>,
      CHANGELOG_HEADER,
      << <<"#"," ","C","h","a","n","g","e","l","o","g">>, <<>> >>,
      << <<"#"," ","C","h","a","n","g","e"," ","L","o","g">>, <<>>, <<>> >>,
      << <<"R","e","l","e","a","s","e"," ","n","o","t","e","s">>, <<>>, <<>> >>,
      EmptyString }

\* the entries of earlier releases
OldEntries ==
    { << <<"#","#"," ","[","1",".","0",".","0","]"," ","-"," ","2","0","2","4","-","0","1","-","0","1">>, <<>>, <<"-"," ","f","i","r","s","t">>, <<>>, <<>> >>,
      << <<"#","#"," ","[","0",".","9",".","0","]"," ","-"," ","2","0","2","3","-","1","2","-","0","1">>, <<>>, <<"-"," ","b","e","t","a">>, <<>> >> }

EntryLists == UNION { [1..n -> OldEntries] : n \in 0..MaxEntries }

InitChangelog ==
    /\ pc = "call"
    /\ \/ changelogFile = <<>>
       \/ \E head \in FileHeads, entries \in EntryLists :
            changelogFile = <<Concat(head, ConcatAll(entries))>>
    /\ newEntry \in NewEntries
    /\ newContent = EmptyString
    /\ files = <<>>
    /\ ParserIdle /\ SemanticIdle /\ PromptIdle /\ PipelineIdle /\ MainIdle /\ ReleaseIdle
    /\ BumpIdle /\ SecretIdle /\ ExecuteIdle

\* lines 249-275
WriteChangelog ==
    /\ pc = "call"
    /\ newContent' = writeChangelog(readChangelog(changelogFile), newEntry)
    /\ pc' = "written"
    /\ UNCHANGED <<changelogFile, newEntry, parseVars, compressVars, truncateVars,
                   semanticVars, promptVars, pipelineVars, mainVars, releaseVars,
                   bumpVars, secretVars, executeVars>>

NextChangelog == WriteChangelog

SpecChangelog == InitChangelog /\ [][NextChangelog]_vars

----------------------------------------------------------------------------
(* Specification of the setup and teardown commands: part_008 lines 80-272,
   on the credential store of secrets.ts *)

\* type Provider; claude needs no credentials
Providers == { "cloudflare", "anthropic", "openai", "claude" }
\* what the user may enter as the credentials of a provider
Credentials == { "key-1", "key-2" }

\* a SecretsConfig: providers is the record of credentials as the sequence of
\* its keys, in insertion order (the order of Object.keys, which JSON keeps)
Config(default, providers) == [defaultProvider |-> default, providers |-> providers]

\* Object.keys(config.providers)
KeysOf(providers) == [k \in 1..Len(providers) |-> providers[k].name]
HasKey(providers, name) == \E k \in 1..Len(providers) : providers[k].name = name

\* providers[name] = cred: a key that exists keeps its place
SetKey(providers, name, cred) ==
    IF HasKey(providers, name)
    THEN [k \in 1..Len(providers) |->
            IF providers[k].name = name THEN [name |-> name, cred |-> cred]
            ELSE providers[k]]
    ELSE Append(providers, [name |-> name, cred |-> cred])

\* delete providers[name]
DeleteKey(providers, name) == SelectSeq(providers, LAMBDA entry : entry.name # name)

\* getConfig() in a new process (lines 14-46 of secrets.ts): the cache is
\* empty, the stored value is parsed, null when there is none
getConfig(stored) == stored

\* lines 108-180: the configuration setup saves; existing is <<>> for null,
\* makeDefault the answer where the question is asked
setupConfig(existing, provider, cred, makeDefault) ==
    LET base == IF existing # <<>> THEN existing[1] ELSE Config(provider, <<>>)
        withCred == IF provider = "claude" THEN base.providers
                    ELSE SetKey(base.providers, provider, cred)
        default == IF existing # <<>> /\ existing[1].defaultProvider # provider
                   THEN IF makeDefault THEN provider ELSE base.defaultProvider
                   ELSE provider
    IN Config(default, withCred)

\* teardownConfig that leaves the default provider as it was
teardownConfigKeepsDefault(existing, providerToRemove) ==
    Config(existing.defaultProvider, DeleteKey(existing.providers, providerToRemove))

\* lines 254-261: the configuration teardown saves
teardownConfig(existing, providerToRemove) ==
    LET remaining == DeleteKey(existing.providers, providerToRemove)
    IN Config(IF existing.defaultProvider = providerToRemove
              THEN IF remaining # <<>> THEN remaining[1].name ELSE "claude"
              ELSE existing.defaultProvider,
              remaining)

\* how a command ended: what was selected, the exit code (0 for a return) and
\* the stored configuration it found
Ended(command, selected, code) ==
    [command |-> command, selected |-> selected, exit |-> code, found |-> store]

InitSecrets ==
    /\ pc = "shell"
    /\ store = <<>>
    /\ lastRun = [command |-> "none", selected |-> "", exit |-> 0, found |-> <<>>]
    /\ files = <<>>
    /\ ParserIdle /\ SemanticIdle /\ PromptIdle /\ PipelineIdle /\ MainIdle /\ ReleaseIdle
    /\ BumpIdle /\ ChangelogIdle /\ ExecuteIdle

SecretFrame ==
    UNCHANGED <<pc, parseVars, compressVars, truncateVars, semanticVars, promptVars,
                pipelineVars, mainVars, releaseVars, bumpVars, changelogVars, executeVars>>

\* lines 80-194: one run of 'aic setup'
Setup ==
    /\ pc = "shell"
    /\ SecretFrame
    /\ \/ \* a prompt is cancelled, or the claude CLI is not found
          /\ \E code \in { 0, 1 } : lastRun' = Ended("setup", CANCEL, code)
          /\ UNCHANGED store
       \/ \E provider \in Providers, cred \in Credentials, makeDefault \in BOOLEAN :
            LET newConfig == setupConfig(getConfig(store), provider, cred, makeDefault)
            IN \/ \* setConfig saves
                  /\ store' = <<newConfig>>
                  /\ lastRun' = Ended("setup", provider, 0)
               \/ \* setConfig throws
                  /\ lastRun' = Ended("setup", provider, 1)
                  /\ UNCHANGED store

\* lines 200-272: one run of 'aic teardown'
Teardown ==
    /\ pc = "shell"
    /\ SecretFrame
    /\ LET existingConfig == getConfig(store)
       IN IF existingConfig = <<>>
          THEN /\ lastRun' = Ended("teardown", "", 0)
               /\ UNCHANGED store
          ELSE IF existingConfig[1].providers = <<>>
                    /\ existingConfig[1].defaultProvider = "claude"
          THEN \/ /\ store' = <<>>
                  /\ lastRun' = Ended("teardown", "all", 0)
               \/ /\ lastRun' = Ended("teardown", CANCEL, 0)
                  /\ UNCHANGED store
          ELSE \/ /\ lastRun' = Ended("teardown", CANCEL, 0)
                  /\ UNCHANGED store
               \/ \* deleteConfig
                  \/ /\ store' = <<>>
                     /\ lastRun' = Ended("teardown", "all", 0)
                  \/ /\ lastRun' = Ended("teardown", "all", 1)
                     /\ UNCHANGED store
               \/ \E providerToRemove \in Providers :
                    /\ HasKey(existingConfig[1].providers, providerToRemove)
                    /\ \/ /\ store' = <<teardownConfig(existingConfig[1], providerToRemove)>>
                          /\ lastRun' = Ended("teardown", providerToRemove, 0)
                       \/ /\ lastRun' = Ended("teardown", providerToRemove, 1)
                          /\ UNCHANGED store

NextSecrets == Setup \/ Teardown

SpecSecrets == InitSecrets /\ [][NextSecrets]_vars

----------------------------------------------------------------------------
(* Specification of executeSection, one iteration of its loop per step:
   part_004 lines 72-131 *)

\* how running a command of .aic ends: exit code 0, another exit code, or
\* Bun.spawn throws
CommandResults == { "ok", "nonzero", "throws" }

\* longest section handed to executeSection, in commands
MaxSection == 3

\* the sections executeSection may find
ExecSections == UNION { [1..n -> CommandResults] : n \in 0..MaxSection }

\* a callback made or a process spawned for command k
Call(what, k) == [what |-> what, cmd |-> k]

\* one iteration that goes on to the next command after a failure
executeCommandKeepsGoing(st, cmd, dry) ==
    LET k == st.cmdIdx + 1
        announced == Append(st.calls, Call("onCommand", k))
    IN IF dry
       THEN [cmdIdx |-> k, calls |-> announced, returned |-> st.returned]
       ELSE IF cmd = "ok"
       THEN [cmdIdx |-> k, calls |-> Append(announced, Call("spawn", k)),
             returned |-> st.returned]
       ELSE [cmdIdx |-> k,
             calls |-> announced \o <<Call("spawn", k), Call("onError", k)>>,
             returned |-> st.returned]

\* lines 87-128: one iteration of the for-loop on the state
\* st = [cmdIdx, calls, returned]
executeCommand(st, cmd, dry) ==
    LET k == st.cmdIdx + 1
        announced == Append(st.calls, Call("onCommand", k))
    IN IF dry
       THEN [cmdIdx |-> k, calls |-> announced, returned |-> st.returned]
       ELSE IF cmd = "ok"
       THEN [cmdIdx |-> k, calls |-> Append(announced, Call("spawn", k)),
             returned |-> st.returned]
       ELSE [cmdIdx |-> k,
             calls |-> announced \o <<Call("spawn", k), Call("onError", k)>>,
             returned |-> "false"]

InitExecute ==
    /\ pc = "loop"
    /\ commands \in ExecSections
    /\ dryRun \in BOOLEAN
    /\ cmdIdx = 0
    /\ calls = <<>>
    /\ returned = "running"
    /\ files = <<>>
    /\ ParserIdle /\ SemanticIdle /\ PromptIdle /\ PipelineIdle /\ MainIdle /\ ReleaseIdle
    /\ BumpIdle /\ ChangelogIdle /\ SecretIdle

ExecuteFrame ==
    UNCHANGED <<commands, dryRun, parseVars, compressVars, truncateVars, semanticVars,
                promptVars, pipelineVars, mainVars, releaseVars, bumpVars, changelogVars,
                secretVars>>

\* lines 87-128
ExecuteCommand ==
    /\ pc = "loop"
    /\ cmdIdx < Len(commands)
    /\ ExecuteFrame
    /\ LET st == executeCommand([cmdIdx |-> cmdIdx, calls |-> calls, returned |-> returned],
                                commands[cmdIdx + 1], dryRun)
       IN /\ cmdIdx' = st.cmdIdx
          /\ calls' = st.calls
          /\ returned' = st.returned
          /\ pc' = IF st.returned = "running" THEN "loop" ELSE "returned"

\* lines 82-85 and 130: no command, or none left
ExecuteReturn ==
    /\ pc = "loop"
    /\ cmdIdx = Len(commands)
    /\ ExecuteFrame
    /\ returned' = "true"
    /\ pc' = "returned"
    /\ UNCHANGED <<cmdIdx, calls>>

NextExecute == ExecuteCommand \/ ExecuteReturn

SpecExecute == InitExecute /\ [][NextExecute]_vars

----------------------------------------------------------------------------
(* Helpers of the properties *)

Range(s) == { s[k] : k \in 1..Len(s) }
Count(x, s) == Cardinality({ k \in 1..Len(s) : s[k] = x })

\* sum of a sequence of numbers
RECURSIVE Sum(_)
Sum(s) == IF s = <<>> THEN 0 ELSE Head(s) + Sum(Tail(s))

RECURSIVE IsSubseq(_, _)
IsSubseq(s, t) ==
    IF s = <<>> THEN TRUE
    ELSE IF t = <<>> THEN FALSE
    ELSE IF Head(s) = Head(t) THEN IsSubseq(Tail(s), Tail(t))
    ELSE IsSubseq(s, Tail(t))

\* diff lines of a file that a text of compressDiffs carries
ContentLines(text) == Cardinality({ k \in 1..Len(text) : text[k].kind = "line" })
HasKind(text, kind) == \E k \in 1..Len(text) : text[k].kind = kind

----------------------------------------------------------------------------
(* C1 *)

\* C1: whatever the files and the size of their diffs, the output of
\* compressDiffs carries at most MAX_TOTAL_DIFF_LINES (1500) diff lines of
\* the files, summed over all files; the '(deleted)' and '(omitted)'
\* placeholders (and the header, marker and separator lines) are not diff
\* lines.  It holds of the entries collected so far at every point of the
\* loop and of the string returned.
C1_BudgetRespect ==
    /\ Sum([k \in 1..Len(diffs) |-> ContentLines(diffs[k])]) <= MAX_TOTAL_DIFF_LINES
    /\ pc = "returned" => ContentLines(output) <= MAX_TOTAL_DIFF_LINES

\* the budget is used up to the last line and a later file is omitted
C1_Witness ==
    /\ pc = "returned"
    /\ ContentLines(output) = MAX_TOTAL_DIFF_LINES
    /\ HasKind(output, "omitted")
    /\ HasKind(output, "deleted")

----------------------------------------------------------------------------
(* C2 *)

\* C2: in every iteration of the loop on a non-deleted file, the entry pushed
\* carries at most fileBudget = min(50, remaining global budget) lines of
\* that file's diff text (none when the budget is used up), hence never more
\* than 50, and every diff line it carries is a line of that file.
C2_PerFileBudget ==
    [][ idx' = idx + 1 =>
          LET file == files[idx + 1]
              entry == diffs'[idx + 1]
              fileBudget == Min(MAX_LINES_PER_FILE, MAX_TOTAL_DIFF_LINES - totalLines)
          IN file.status # "deleted" =>
               /\ ContentLines(entry) <= Max(fileBudget, 0)
               /\ ContentLines(entry) <= MAX_LINES_PER_FILE
               /\ \A k \in 1..Len(entry) :
                    entry[k].kind = "line" => entry[k] \in Range(file.diff) ]_vars

\* a file was cut to fewer than 50 lines because less of the global budget
\* remained, and another was cut to 50
C2_Witness ==
    /\ \E k \in 1..Len(diffs) :
         HasKind(diffs[k], "marker") /\ ContentLines(diffs[k]) < MAX_LINES_PER_FILE
    /\ \E k \in 1..Len(diffs) :
         HasKind(diffs[k], "marker") /\ ContentLines(diffs[k]) = MAX_LINES_PER_FILE

----------------------------------------------------------------------------
(* C3 *)

\* floor(0.7 * B) by its defining inequality
Floor70(B) == CHOOSE h \in 0..B : 10 * h <= 7 * B /\ 7 * B < 10 * (h + 1)

\* C3: truncateDiff(d, B) with B >= 1 returns d unchanged when d has at most
\* B lines; otherwise it returns the first floor(0.7*B) lines of d, one
\* marker line stating that lines(d) - B lines were omitted, and the last
\* B - floor(0.7*B) lines of d.  For 200 lines and B = 50: lines 1..35, the
\* marker for 150 lines, lines 186..200.
C3_Truncate ==
    pc = "done" =>
      LET n == Len(diff)
          B == maxLines
          h == Floor70(B)
          t == B - h
      IN /\ n <= B => truncated = diff
         /\ n > B =>
              /\ Len(truncated) = B + 1
              /\ \A k \in 1..h : truncated[k] = diff[k]
              /\ truncated[h + 1] = MarkerLine(n - B)
              /\ \A k \in 1..t : truncated[h + 1 + k] = diff[n - t + k]
         /\ (n = 200 /\ B = 50) =>
              /\ SubSeq(truncated, 1, 35) = SubSeq(diff, 1, 35)
              /\ truncated[36] = MarkerLine(150)
              /\ SubSeq(truncated, 37, 51) = SubSeq(diff, 186, 200)

\* the 200-line diff was truncated with a budget of 50
C3_Witness ==
    /\ pc = "done"
    /\ Len(diff) = 200
    /\ maxLines = 50
    /\ Len(truncated) = 51

----------------------------------------------------------------------------
(* C4 *)

AdditionsOf(fs) == [k \in 1..Len(fs) |-> fs[k].additions]
DeletionsOf(fs) == [k \in 1..Len(fs) |-> fs[k].deletions]
AllClassified == classified.included \o classified.summarized \o classified.excluded

\* C4: the additions of the records of included, summarized and excluded sum
\* to totalAdditions of the parse result, and their deletions to
\* totalDeletions.
C4_CountConservation ==
    pc = "classified" =>
      /\ Sum(AdditionsOf(AllClassified)) = parsed.totalAdditions
      /\ Sum(DeletionsOf(AllClassified)) = parsed.totalDeletions

\* an included and an excluded file, one of them with counted lines
C4_Witness ==
    /\ pc = "classified"
    /\ classified.included # <<>>
    /\ classified.excluded # <<>>
    /\ parsed.totalAdditions + parsed.totalDeletions > 0

----------------------------------------------------------------------------
(* C5 *)

\* C5: classifyFiles puts every record in exactly one of the three lists
\* (as often as it occurs in the input, and nothing else), and each list
\* keeps the order of the input.
C5_Partition ==
    pc = "classified" =>
      /\ Len(classified.included) + Len(classified.summarized)
           + Len(classified.excluded) = Len(parsed.files)
      /\ Range(AllClassified) = Range(parsed.files)
      /\ \A r \in Range(parsed.files) :
           /\ Count(r, AllClassified) = Count(r, parsed.files)
           /\ Cardinality({ t \in {"included", "summarized", "excluded"} :
                              r \in Range(classified[t]) }) = 1
      /\ IsSubseq(classified.included, parsed.files)
      /\ IsSubseq(classified.summarized, parsed.files)
      /\ IsSubseq(classified.excluded, parsed.files)

\* three records, spread over two lists
C5_Witness ==
    /\ pc = "classified"
    /\ Len(parsed.files) = 3
    /\ Len(classified.included) = 2
    /\ Len(classified.excluded) = 1

----------------------------------------------------------------------------
(* C6 *)

TiersOf(r) == { t \in {"included", "summarized", "excluded"} : r \in Range(classified[t]) }

\* summary-only patterns that the code does not have, to exercise the order
\* of the two tests: /\.map$/ overlaps the exclusion patterns, /\.ts$/ does not
HypotheticalSummaryPatterns == { Pat(<<".","m","a","p">>, TRUE), Pat(<<".","t","s">>, TRUE) }

\* C6: the list a record lands in is determined by its path: excluded when
\* an exclusion pattern matches, else summarized when a summary-only pattern
\* matches, else included; two records with the same path land in the same
\* list whatever their status, counts and diff; and with a summary-only
\* pattern that overlaps an exclusion pattern the path is still excluded.
C6_TierByPath ==
    pc = "classified" =>
      /\ \A r \in Range(parsed.files) :
           TiersOf(r) =
             IF Some(EXCLUDED_PATTERNS, r.path) THEN {"excluded"}
             ELSE IF Some(SUMMARY_ONLY_PATTERNS, r.path) THEN {"summarized"}
             ELSE {"included"}
      /\ \A r1, r2 \in Range(parsed.files) :
           r1.path = r2.path => TiersOf(r1) = TiersOf(r2)
      /\ \A r \in Range(parsed.files) :
           LET tier == tierOf(r.path, EXCLUDED_PATTERNS, HypotheticalSummaryPatterns)
           IN /\ Some(EXCLUDED_PATTERNS, r.path) => tier = "excluded"
              /\ (~Some(EXCLUDED_PATTERNS, r.path)
                    /\ Some(HypotheticalSummaryPatterns, r.path)) => tier = "summarized"

\* two records of different status with one path, which matches an exclusion
\* pattern and a hypothetical summary-only pattern
C6_Witness ==
    /\ pc = "classified"
    /\ \E r1, r2 \in Range(parsed.files) :
         /\ r1.path = r2.path
         /\ r1.status # r2.status
         /\ Some(EXCLUDED_PATTERNS, r1.path)
         /\ Some(HypotheticalSummaryPatterns, r1.path)
         /\ TiersOf(r1) = {"excluded"}

----------------------------------------------------------------------------
(* C7, C8: the kind of a record and the metadata of its block *)

\* the lines of the block a record was made from, after its header line
BodyOf(r) == Tail(r.diff)
\* the header line of the block, without the boundary marker
HeaderOf(r) == DropChars(r.diff[1], Len(DIFF_GIT))

\* a metadata line of git: the marker text stands at the start of the line
HasMarkerLine(r, marker) == \E k \in 1..Len(BodyOf(r)) : StartsWith(BodyOf(r)[k], marker)
MetadataLines(r) ==
    { l \in Range(BodyOf(r)) :
        \/ StartsWith(l, NEW_FILE_MODE)
        \/ StartsWith(l, DELETED_FILE_MODE)
        \/ StartsWith(l, RENAME_FROM) }

\* the text begins with a boundary marker, so every record comes from a block
NoPreamble == StartsWith(diffOutput[1], DIFF_GIT)

\* C7: the kind is added if the block has a new-file marker line; else
\* deleted if it has a deleted-file marker line; else renamed if it has a
\* rename marker line or the header paths differ; else modified.
C7_KindPrecedence ==
    (pc # "start" /\ NoPreamble) =>
      \A r \in Range(parsed.files) :
        LET m == pathMatch(HeaderOf(r))
        IN r.status =
             IF HasMarkerLine(r, NEW_FILE_MODE) THEN "added"
             ELSE IF HasMarkerLine(r, DELETED_FILE_MODE) THEN "deleted"
             ELSE IF HasMarkerLine(r, RENAME_FROM) \/ m.oldPath # m.newPath THEN "renamed"
             ELSE "modified"

\* C8: two blocks with the same header line and the same metadata lines get
\* the same kind, whatever their added, removed and context lines contain.
C8_KindFromMetadataOnly ==
    (pc # "start" /\ NoPreamble) =>
      \A r1, r2 \in Range(parsed.files) :
        (HeaderOf(r1) = HeaderOf(r2) /\ MetadataLines(r1) = MetadataLines(r2))
          => r1.status = r2.status

----------------------------------------------------------------------------
(* C9 *)

\* the two file-header lines of a block: '+++ <path>' and '--- <path>'
IsPlusHeader(l) == StartsWith(l, <<"+","+","+"," ">>)
IsMinusHeader(l) == StartsWith(l, <<"-","-","-"," ">>)

\* C9: additions is the number of lines of the block that start with '+'
\* and are not the '+++' file-header line, deletions the number of lines
\* that start with '-' and are not the '---' file-header line; both are
\* >= 0.
C9_CountsContentLines ==
    (pc # "start" /\ NoPreamble) =>
      \A r \in Range(parsed.files) :
        /\ r.additions >= 0 /\ r.deletions >= 0
        /\ r.additions =
             Cardinality({ k \in 1..Len(r.diff) :
                             StartsWith(r.diff[k], PLUS) /\ ~IsPlusHeader(r.diff[k]) })
        /\ r.deletions =
             Cardinality({ k \in 1..Len(r.diff) :
                             StartsWith(r.diff[k], MINUS) /\ ~IsMinusHeader(r.diff[k]) })

----------------------------------------------------------------------------
(* C10 *)

BoundaryLines(text) == { k \in 1..Len(text) : StartsWith(text[k], DIFF_GIT) }
\* the text from its first boundary marker on
FromFirstBoundary(text) == SubSeq(text, SetMin(BoundaryLines(text)), Len(text))

\* C10: what precedes the first 'diff --git ' at a line start is discarded:
\* the parse result is that of the text without this portion, so the
\* portion yields no record and adds nothing to the totals.
C10_PreambleDiscarded ==
    (pc # "start" /\ BoundaryLines(diffOutput) # {}) =>
      parsed = parseUnifiedDiff(FromFirstBoundary(diffOutput))

----------------------------------------------------------------------------
(* C11 *)

\* the pieces of the text that the loop of parseUnifiedDiff visits, and those
\* among them whose first line has the 'a/<path> b/<path>' shape
Pieces(text) == FilterBoolean(SplitDiffGit(text))
HasHeaderShape(piece) == pathMatch(piece[1]).matched
WellFormed(text) == SelectSeq(Pieces(text), HasHeaderShape)

\* C11: parseUnifiedDiff returns a result on every text.  The records are,
\* in the order of the text, those of the blocks whose first line has the
\* header shape: the k-th record is the one that parsing the k-th such block
\* alone yields, so a block without the header shape yields no record and
\* changes no other record; the totals are the counts of the blocks with the
\* header shape only; the empty text yields no record and zero totals.
C11_TotalAndSkipping ==
    pc # "start" =>
      LET blocks == WellFormed(diffOutput)
      IN /\ Len(parsed.files) = Len(blocks)
         /\ \A k \in 1..Len(blocks) :
              <<parsed.files[k]>> = parseUnifiedDiff(WithDiffGit(blocks[k])).files
         /\ parsed.totalAdditions
              = Sum([k \in 1..Len(blocks) |-> countAdditions(blocks[k])])
         /\ parsed.totalDeletions
              = Sum([k \in 1..Len(blocks) |-> countDeletions(blocks[k])])
         /\ diffOutput = << <<>> >> => parsed = EmptyParsedDiff

\* a block without the header shape, holding an added line, stands before a
\* block that yields a record
C11_Witness ==
    /\ pc # "start"
    /\ Len(parsed.files) = 1
    /\ parsed.totalAdditions = 0
    /\ \E k \in 1..Len(Pieces(diffOutput)) :
         /\ ~HasHeaderShape(Pieces(diffOutput)[k])
         /\ countAdditions(Pieces(diffOutput)[k]) > 0
         /\ k < Len(Pieces(diffOutput))

----------------------------------------------------------------------------
(* C12 *)

\* C12: in every iteration of the loop on a deleted file, the entry pushed is
\* the one-line '(deleted)' placeholder, which holds no line of the file's
\* diff, and totalLines (hence the remaining global budget) is unchanged.
C12_DeletedPlaceholder ==
    [][ (idx' = idx + 1 /\ files[idx + 1].status = "deleted") =>
          /\ diffs'[idx + 1] = <<[kind |-> "deleted", path |-> files[idx + 1].path]>>
          /\ ContentLines(diffs'[idx + 1]) = 0
          /\ totalLines' = totalLines
          /\ MAX_TOTAL_DIFF_LINES - totalLines' = MAX_TOTAL_DIFF_LINES - totalLines ]_vars

\* a deleted file stands between two files that are charged
C12_Witness ==
    \E k \in 2..(Len(diffs) - 1) :
      /\ files[k].status = "deleted"
      /\ diffs[k] = <<[kind |-> "deleted", path |-> files[k].path]>>
      /\ HasKind(diffs[k - 1], "line")
      /\ HasKind(diffs[k + 1], "line")
      /\ totalLines > 0

----------------------------------------------------------------------------
(* extractSemantics: SpecSemantics *)

\* the added lines of the files that are not deleted, in sequence order
RECURSIVE AddedLinesOf(_)
AddedLinesOf(fs) ==
    IF fs = <<>> THEN <<>>
    ELSE (IF Head(fs).status = "deleted" THEN <<>>
          ELSE SelectSeq(Head(fs).diff, isAddedCode))
         \o AddedLinesOf(Tail(fs))

\* the one input all inputs with these added lines are compared with: a
\* single modified file whose diff is these added lines and nothing else
Canonical(fs) == << SemFile("modified", AddedLinesOf(fs)) >>

\* C13: the SemanticSummary is a function of the added lines of the
\* non-deleted files taken in sequence order.  Every input yields the lists
\* of the input that has the same added lines and nothing else (no removed,
\* context or header line, no deleted file, no file boundary); so two inputs
\* that agree on the added lines yield the same lists.
C13_AddedLinesOnly ==
    pc = "extracted" => semantics = extractSemantics(Canonical(files))

\* a deleted file and a removed declaration are in the input, the added
\* lines are spread over several files and a declaration is found
C13_Witness ==
    /\ pc = "extracted"
    /\ \E k \in 1..Len(files) : files[k].status = "deleted"
    /\ \E k \in 1..Len(files) :
         /\ files[k].status # "deleted"
         /\ \E j \in 1..Len(files[k].diff) : StartsWith(files[k].diff[j], MINUS)
    /\ semantics.functions # <<>>
    /\ files # Canonical(files)

NoRepeat(list) == \A a, b \in 1..Len(list) : list[a] = list[b] => a = b

\* position of the first match that captures name
FirstStart(matches, name) ==
    SetMin({ matches[k].start : k \in { j \in 1..Len(matches) : matches[j].cap = name } })

\* list is in the order of the first match of its identifiers
InTextOrder(list, matches) ==
    \A a, b \in 1..Len(list) :
       a < b => FirstStart(matches, list[a]) < FirstStart(matches, list[b])

Captured(matches, name) == \E k \in 1..Len(matches) : matches[k].cap = name

\* the three families of function patterns, in the order of lines 24-28
Families(code) ==
    << matchAll(code, RE_FUNCTION), matchAll(code, RE_BINDING_PAREN),
       matchAll(code, RE_BINDING_ARROW) >>

\* first family that captures name
FamilyOf(code, name) == SetMin({ f \in 1..3 : Captured(Families(code)[f], name) })

\* list is ordered by family and, within a family, by first match
InFamilyOrder(list, code) ==
    \A a, b \in 1..Len(list) :
       a < b =>
         LET fa == FamilyOf(code, list[a])
             fb == FamilyOf(code, list[b])
         IN \/ fa < fb
            \/ /\ fa = fb
               /\ FirstStart(Families(code)[fa], list[a])
                    < FirstStart(Families(code)[fa], list[b])

\* C14 as stated: no list has a repeated identifier and each list is in the
\* order of the first occurrence of its identifiers in the added code.
C14_FirstOccurrenceOrder ==
    pc = "extracted" =>
      LET code == allAddedCodeOf(files)
      IN /\ NoRepeat(semantics.functions) /\ NoRepeat(semantics.types)
         /\ NoRepeat(semantics.classes) /\ NoRepeat(semantics.exports)
         /\ InTextOrder(semantics.functions, functionMatches(code))
         /\ InTextOrder(semantics.types, matchAll(code, RE_TYPE))
         /\ InTextOrder(semantics.classes, matchAll(code, RE_CLASS))
         /\ InTextOrder(semantics.exports, matchAll(code, RE_EXPORT))

\* C14 amended: no list has a repeated identifier; types, classes and
\* exports are in the order of first occurrence in the added code; functions
\* lists the function declarations first, then the bindings to a
\* parenthesised function, then the bindings to an arrow function, each
\* group in the order of first occurrence.
C14_FamilyThenOccurrenceOrder ==
    pc = "extracted" =>
      LET code == allAddedCodeOf(files)
      IN /\ NoRepeat(semantics.functions) /\ NoRepeat(semantics.types)
         /\ NoRepeat(semantics.classes) /\ NoRepeat(semantics.exports)
         /\ InFamilyOrder(semantics.functions, code)
         /\ InTextOrder(semantics.types, matchAll(code, RE_TYPE))
         /\ InTextOrder(semantics.classes, matchAll(code, RE_CLASS))
         /\ InTextOrder(semantics.exports, matchAll(code, RE_EXPORT))

\* a binding precedes a function declaration in the added code, the
\* declaration occurs twice, and functions lists the declaration first
C14_Witness ==
    /\ pc = "extracted"
    /\ LET code == allAddedCodeOf(files)
       IN /\ Len(functionMatches(code)) > Len(semantics.functions)
          /\ Len(semantics.functions) = 2
          /\ FirstStart(functionMatches(code), semantics.functions[2])
               < FirstStart(functionMatches(code), semantics.functions[1])

----------------------------------------------------------------------------
(* buildPrompt: SpecPrompt *)

Positions(text, line) == { k \in 1..Len(text) : text[k] = line }
Present(line) == Positions(prompt, line) # {}
PosOf(line) == SetMin(Positions(prompt, line))

\* the lines that open the sections, in the order of the claim
SECTION_ORDER ==
    << PREAMBLE, H_SELECTION, H_RECENT, H_NOTE, H_STATS, H_CODE, H_FILES, H_DIFF,
       H_TYPES, CLOSING >>

\* the lines of the prompt that follow the line `line`, as many as body has
BodyAfter(line, body) == SubSeq(prompt, PosOf(line) + 1, PosOf(line) + Len(body))

IsBlank(text) == \A k \in 1..Len(text) : \A j \in 1..Len(text[k]) : text[k][j] \in SpaceChars

SemanticsEmpty(sem) ==
    sem.functions = <<>> /\ sem.types = <<>> /\ sem.classes = <<>> /\ sem.exports = <<>>

\* C15: the prompt opens with the preamble and ends with the closing
\* instruction; stats and catalog are always there; the hint is there exactly
\* when a type other than 'auto' was selected, the recent activity when the
\* list is not empty, the note when it is not blank, the file list and the
\* diff when they are not empty, the semantic section when some list of the
\* summary is not empty, and then its heading is followed by a line of
\* content.  The sections that are there open once each, in the fixed order,
\* after an empty line, and stats, file list and diff follow their headings
\* unchanged.
C15_SectionOrder ==
    pc = "built" =>
      /\ prompt[1] = PREAMBLE
      /\ prompt[Len(prompt)] = CLOSING
      /\ Present(H_STATS) /\ Present(H_TYPES)
      /\ Present(H_SELECTION) <=> (args.selectedType # undefined /\ args.selectedType # AUTO)
      /\ Present(H_RECENT) <=> args.recentCommits # <<>>
      /\ Present(H_NOTE) <=> ~IsBlank(args.userInput)
      /\ Present(H_CODE) <=> ~SemanticsEmpty(args.semantics)
      /\ Present(H_CODE) => prompt[PosOf(H_CODE) + 1] # <<>>
      /\ Present(H_FILES) <=> args.fileList # EmptyString
      /\ Present(H_DIFF) <=> args.compressedDiffs # EmptyString
      /\ \A a \in 1..Len(SECTION_ORDER) :
           Present(SECTION_ORDER[a]) =>
             /\ Cardinality(Positions(prompt, SECTION_ORDER[a])) = 1
             /\ a > 1 => prompt[PosOf(SECTION_ORDER[a]) - 1] = <<>>
             /\ \A b \in (a + 1)..Len(SECTION_ORDER) :
                  Present(SECTION_ORDER[b]) =>
                    PosOf(SECTION_ORDER[a]) < PosOf(SECTION_ORDER[b])
      /\ BodyAfter(H_STATS, args.stats) = args.stats
      /\ Present(H_FILES) => BodyAfter(H_FILES, args.fileList) = args.fileList
      /\ Present(H_DIFF) => BodyAfter(H_DIFF, args.compressedDiffs) = args.compressedDiffs

\* every optional section but the semantic one is there, and no pattern
\* matched
C15_Witness ==
    /\ pc = "built"
    /\ Present(H_SELECTION) /\ Present(H_RECENT) /\ Present(H_NOTE)
    /\ Present(H_FILES) /\ Present(H_DIFF)
    /\ SemanticsEmpty(args.semantics) /\ ~Present(H_CODE)

\* the lines of the catalog: from the line after its heading to the next
\* empty line
CatalogLines ==
    LET from == PosOf(H_TYPES) + 1
        to == SetMin({ k \in from..Len(prompt) : prompt[k] = <<>> }) - 1
    IN SubSeq(prompt, from, to)

\* a catalog line is `- label: description`
ColonAt(line) == SetMin({ i \in 1..Len(line) : OccursAt(line, <<":", " ">>, i) })
IsCatalogLine(line) ==
    /\ StartsWith(line, <<"-", " ">>)
    /\ \E i \in 1..Len(line) : OccursAt(line, <<":", " ">>, i)
LabelOf(line) == SubSeq(line, 3, ColonAt(line) - 1)
DescriptionOf(line) == SubSeq(line, ColonAt(line) + 2, Len(line))

\* C16 as stated: the catalog of every prompt lists exactly fourteen labels,
\* each with a description.
C16_FourteenLabels ==
    pc = "built" =>
      LET catalog == CatalogLines
          labels == [k \in 1..Len(catalog) |-> LabelOf(catalog[k])]
      IN /\ Len(catalog) = 14
         /\ \A k \in 1..Len(catalog) :
              /\ IsCatalogLine(catalog[k])
              /\ labels[k] # <<>>
              /\ DescriptionOf(catalog[k]) # <<>>

\* C16 amended: the catalog of every prompt lists exactly eleven labels, all
\* different, each with a description that is not empty.
C16_ElevenLabels ==
    pc = "built" =>
      LET catalog == CatalogLines
          labels == [k \in 1..Len(catalog) |-> LabelOf(catalog[k])]
      IN /\ Len(catalog) = 11
         /\ \A k \in 1..Len(catalog) :
              /\ IsCatalogLine(catalog[k])
              /\ labels[k] # <<>>
              /\ DescriptionOf(catalog[k]) # <<>>
         /\ Cardinality({ labels[k] : k \in 1..Len(catalog) }) = Len(catalog)

\* a prompt for a selected type the catalog does not list
C16_Witness ==
    /\ pc = "built"
    /\ args.selectedType # undefined /\ args.selectedType # AUTO
    /\ LET catalog == CatalogLines
       IN /\ Len(catalog) = 11
          /\ \A k \in 1..Len(catalog) : LabelOf(catalog[k]) # args.selectedType

----------------------------------------------------------------------------
(* The core pipeline: SpecPipeline *)

\* C17: the pipeline keeps no state between invocations.  Whatever was
\* invoked before, the RegExp objects of the module are as they were when
\* the module was loaded, and two invocations with the same diff text, note,
\* type hint and recent commits have returned the same prompt.
C17_NoSharedState ==
    /\ lastIndex = InitialLastIndex
    /\ \A i, j \in 1..Len(history) :
         history[i].input = history[j].input => history[i].prompt = history[j].prompt

\* an input with an excluded file was run twice, with a different input in
\* between
C17_Witness ==
    \E i, j, k \in 1..Len(history) :
       /\ i < j /\ j < k
       /\ history[i].input = history[k].input
       /\ history[j].input # history[i].input
       /\ Positions(history[i].prompt, <<"(","e","x","c","l","u","d","e","d",":"," ","1"," ","f","i","l","e","s",")">>) # {}
       /\ Positions(history[j].prompt, <<"(","e","x","c","l","u","d","e","d",":"," ","1"," ","f","i","l","e","s",")">>) # {}

----------------------------------------------------------------------------
(* main: SpecMain *)

\* the diff was fetched and is empty, or no file of it is included or
\* summarized
NothingRelevant ==
    /\ diffOutput # <<>>
    /\ \/ Trim(diffOutput) = EmptyString
       \/ Len(classified.included) = 0 /\ Len(classified.summarized) = 0

\* C18: when the diff is empty or every file of it is excluded, the run has
\* ended with exit code 0 and one of the two 'no changes' messages; no prompt
\* was built, no generation request was issued, nothing was committed or
\* pushed.
C18_NothingToCommit ==
    NothingRelevant =>
      /\ pc = "exited"
      /\ exitCode = 0
      /\ outcome \in { "No changes to commit", "No relevant changes (all files excluded)" }
      /\ prompt = EmptyString
      /\ requests = 0 /\ commits = 0 /\ pushes = 0

\* files are staged and the diff has files, all of them excluded
C18_Witness ==
    /\ pc = "exited"
    /\ hasStaged
    /\ Len(parsed.files) > 0
    /\ Len(classified.excluded) = Len(parsed.files)
    /\ exitCode = 0 /\ requests = 0

----------------------------------------------------------------------------
(* interactiveRelease: SpecRelease *)

Ran(name) == \E k \in 1..Len(steps) : steps[k].step = name

\* C19: once a command of the [release] section has failed, the run creates
\* no release commit and no tag and pushes nothing.
C19_AbortOnScriptFailure ==
    (\E k \in 1..Len(steps) : steps[k] = Step("release scripts", FALSE)) =>
      ~Ran("commit") /\ ~Ran("tag") /\ ~Ran("push")

\* the steps of a release in the order of the claim
RELEASE_ORDER ==
    << "version", "release scripts", "changelog", "commit", "tag", "push",
       "publish scripts" >>
Rank(name) == CHOOSE r \in 1..Len(RELEASE_ORDER) : RELEASE_ORDER[r] = name

\* C20: the steps of a run are in the fixed order, each at most once; the
\* tag step comes after a release commit that succeeded and the [publish]
\* scripts after a push that succeeded.
C20_FixedOrder ==
    /\ \A a, b \in 1..Len(steps) :
         a < b => Rank(steps[a].step) < Rank(steps[b].step)
    /\ \A k \in 1..Len(steps) :
         steps[k].step = "tag" =>
           \E j \in 1..(k - 1) : steps[j] = Step("commit", TRUE)
    /\ \A k \in 1..Len(steps) :
         steps[k].step = "publish scripts" =>
           \E j \in 1..(k - 1) : steps[j] = Step("push", TRUE)

\* a release that ran all seven steps and returned
C20_Witness ==
    /\ pc = "returned"
    /\ Len(steps) = Len(RELEASE_ORDER)
    /\ \A k \in 1..Len(steps) : steps[k].step = RELEASE_ORDER[k]

----------------------------------------------------------------------------
(* bumpVersion: SpecBump *)

\* the version of the components v = <<major, minor, patch>>
VersionOf(v) == Dotted(ToDecimal(v[1]), ToDecimal(v[2]), ToDecimal(v[3]))

\* what a release of the given type makes of the components
Bumped(v, type) ==
    CASE type = "patch" -> <<v[1], v[2], v[3] + 1>>
      [] type = "minor" -> <<v[1], v[2] + 1, 0>>
      [] type = "major" -> <<v[1] + 1, 0, 0>>

\* the (major, minor, patch) order
LexGreater(a, b) ==
    \/ a[1] > b[1]
    \/ a[1] = b[1] /\ a[2] > b[2]
    \/ a[1] = b[1] /\ a[2] = b[2] /\ a[3] > b[3]

----------------------------------------------------------------------------
(* main: SpecMain, the action menu *)

\* the entries of the log before entry k that are calls of
\* displayCommitMessage
DisplaysBefore(k) == { j \in 1..(k - 1) : events[j].e = "display" }

\* the message the run held when entry k was logged: the one displayed last
CurrentAt(k) == events[SetMax(DisplaysBefore(k))].msg

\* C22: 'git commit' is invoked only when files are staged, only after a
\* commit message was generated successfully, and with the current value of
\* the message, which is the one of the last successful generation or edit;
\* 'git push' is invoked only right after that commit succeeded and the user
\* answered yes to 'Push to remote?'.
C22_CommitAndPush ==
    \A k \in 1..Len(events) :
      /\ events[k].e = "commit" =>
           /\ hasStaged
           /\ \E j \in DisplaysBefore(k) : events[j].msg \in GeneratedMessages
           /\ events[k].msg = CurrentAt(k)
      /\ events[k].e = "push" =>
           /\ k >= 3
           /\ events[k - 1] = Event("confirm push", "", TRUE)
           /\ events[k - 2].e = "commit" /\ events[k - 2].ok

\* files were staged through the file selection or at the start, the message
\* was regenerated and then edited, the edited message was committed and the
\* commit pushed
C22_Witness ==
    /\ pc = "exited" /\ commits = 1 /\ pushes = 1 /\ requests = 2 /\ hasStaged
    /\ \E k \in 1..Len(events) :
         /\ events[k].e = "commit"
         /\ events[k].msg \in EditedMessages
         /\ Cardinality(DisplaysBefore(k)) = 3

\* C28: a step of the action menu in which the regeneration fails or the edit
\* prompt is cancelled leaves the commit message as it was, does not end the
\* process and offers the menu again; whatever 'Commit' or 'Copy' hands on
\* is the message the run holds at that moment.
C28_FailedRetryKeepsMessage ==
    [][ /\ ( /\ pc = "menu"
             /\ \/ events' = Append(events, Event("edit cancelled", "", FALSE))
                \/ events' = Append(events, Event("request", "", TRUE)) )
          => /\ finalMessage' = finalMessage
             /\ finalMessage' = CurrentAt(Len(events) + 1)
             /\ pc' = "menu"
             /\ exitCode' = NoExit
        /\ ( /\ Len(events') = Len(events) + 1
             /\ events'[Len(events')].e \in { "commit", "copy" } )
          => /\ events'[Len(events')].msg = finalMessage
             /\ events'[Len(events')].msg = CurrentAt(Len(events) + 1) ]_vars

\* a regeneration failed, then an edit was cancelled, then the message that
\* was generated first was committed or copied
C28_Witness ==
    /\ Len(events) = 6
    /\ events[3].e = "display"
    /\ events[4].e = "request"
    /\ events[5].e = "edit cancelled"
    /\ events[6].e \in { "commit", "copy" }
    /\ events[6].msg = events[3].msg

----------------------------------------------------------------------------
(* main: SpecMainFair, the generation and the context panel *)

\* the message has been displayed or the action menu offered
Offered ==
    \/ pc \in { "menu", "pushConfirm" }
    \/ \E k \in 1..Len(events) : events[k].e \in { "display", "commit", "copy" }

\* C29: the generation request is issued before the context panel is
\* displayed and is in flight while the panel renders; the commit message is
\* displayed and the action menu offered only after the panel has finished
\* and the generation has succeeded; and when the generation fails, before
\* or after the panel finishes, the process exits with code 1 and no
\* commit is ever offered.
C29_GenerationAndPanel ==
    /\ [](panel # "none" => requests >= 1 /\ events[1].e = "request")
    /\ [](panel = "rendering" => aiPromise.state # "none")
    /\ [](Offered => panel = "done" /\ aiPromise.state = "fulfilled")
    /\ [](aiPromise.state = "rejected" => ~Offered /\ commits = 0)
    /\ [](aiPromise.state = "rejected" /\ pc = "exited" => exitCode = 1)
    /\ (aiPromise.state = "rejected" ~> (pc = "exited" /\ exitCode = 1))

\* the generation failed while the panel was rendering, the panel finished
\* and then the process exited with code 1
C29_Witness ==
    /\ pc = "exited" /\ exitCode = 1
    /\ aiPromise.state = "rejected"
    /\ panel = "done" /\ Len(events) = 2

----------------------------------------------------------------------------
(* compressDiffs: SpecCompress, the running total *)

\* the lines of an entry that are charged: diff lines and omission markers
ChargedLines(text) ==
    Cardinality({ k \in 1..Len(text) : text[k].kind \in { "line", "marker" } })

\* C23: the running total that compressDiffs charges against the global
\* budget is the number of kept diff lines and omission-marker lines of the
\* non-deleted files processed so far, and it never exceeds 1501: it passes
\* 1500 by no more than the marker line of the last file that was truncated.
C23_TotalAtMost1501 ==
    /\ totalLines = Sum([k \in 1..Len(diffs) |-> ChargedLines(diffs[k])])
    /\ totalLines <= MAX_TOTAL_DIFF_LINES + 1
    /\ totalLines > MAX_TOTAL_DIFF_LINES =>
         \E k \in 1..Len(diffs) :
           /\ HasKind(diffs[k], "marker")
           /\ \A j \in (k + 1)..Len(diffs) : ChargedLines(diffs[j]) = 0

\* the total stands at 1501 and later files were left out
C23_Witness ==
    /\ pc = "returned"
    /\ totalLines = MAX_TOTAL_DIFF_LINES + 1
    /\ HasKind(diffs[Len(diffs)], "omitted")

\* an '(omitted)' placeholder has been emitted
OmittedSoFar == \E k \in 1..Len(diffs) : HasKind(diffs[k], "omitted")

\* C24: totalLines never decreases from one file to the next, so the
\* remaining global budget never increases; and once an '(omitted)'
\* placeholder has been emitted, every later file that is not deleted gets
\* the '(omitted)' placeholder and no line of its diff.
C24_OmittedFromThenOn ==
    [][ idx' = idx + 1 =>
          /\ totalLines' >= totalLines
          /\ MAX_TOTAL_DIFF_LINES - totalLines' <= MAX_TOTAL_DIFF_LINES - totalLines
          /\ (OmittedSoFar /\ files[idx + 1].status # "deleted") =>
               /\ diffs'[idx + 1] = <<[kind |-> "omitted", path |-> files[idx + 1].path]>>
               /\ totalLines' = totalLines ]_vars

\* two files in a row were omitted after files that were charged
C24_Witness ==
    /\ Len(diffs) >= 3
    /\ HasKind(diffs[Len(diffs)], "omitted")
    /\ HasKind(diffs[Len(diffs) - 1], "omitted")
    /\ HasKind(diffs[Len(diffs) - 2], "line")

----------------------------------------------------------------------------
(* interactiveRelease: SpecRelease, before the confirmation *)

\* C25: nothing is changed before the user confirms the release: a step
\* (version file, scripts, changelog, commit, tag, push) has run only after
\* the answer yes; a run that ends on a pre-flight finding (no repository, no
\* project, the tag exists) or on the answer no or a cancel has run no step.
C25_NothingBeforeConfirmation ==
    /\ steps # <<>> => confirmed = "yes"
    /\ (pc = "exited" /\ outcome \in PreflightFindings \ { "" }) =>
         steps = <<>> /\ confirmed = "unasked" /\ exitCode = 1
    /\ confirmed \in { "no", CANCEL } =>
         steps = <<>> /\ pc = "exited" /\ exitCode = 0

\* the run ended because the user declined
C25_Witness ==
    /\ pc = "exited" /\ exitCode = 0
    /\ confirmed = "no"
    /\ steps = <<>>

----------------------------------------------------------------------------
(* writeChangelog: SpecChangelog *)

\* the first i - 1 lines of a text with their newlines, and the rest; for
\* i = Len(text) + 1 the whole text and the empty string
Before(text, i) ==
    IF i > Len(text) THEN text ELSE SubSeq(text, 1, i - 1) \o << <<>> >>
After(text, i) ==
    IF i > Len(text) THEN EmptyString ELSE SubSeq(text, i, Len(text))

\* the line opens an entry of a release
IsEntryHeading(line) == StartsWith(line, <<"#","#"," ","[">>)

\* C26: for every existing CHANGELOG.md content, the content written is the
\* existing content with newEntry inserted between two of its lines (after
\* a header that is created when there is none), no line of the existing
\* content is lost or moved, and no earlier entry stands before newEntry.
C26_KeepsExistingContent ==
    (pc = "written" /\ changelogFile # <<>>) =>
      LET existing == changelogFile[1]
      IN \E head \in { EmptyString, CHANGELOG_HEADER }, i \in 1..(Len(existing) + 1) :
           /\ newContent =
                Concat(Concat(Concat(head, Before(existing, i)), newEntry),
                       After(existing, i))
           /\ \A k \in 1..Len(Before(existing, i)) : ~IsEntryHeading(Before(existing, i)[k])

----------------------------------------------------------------------------
(* setup and teardown: SpecSecrets *)

\* the default provider needs no credentials or has them
DefaultIsUsable(config) ==
    \/ config.defaultProvider = "claude"
    \/ HasKey(config.providers, config.defaultProvider)

\* the last command was a teardown that removed the credentials of the
\* provider that was the default
RemovedDefault ==
    /\ lastRun.command = "teardown" /\ lastRun.exit = 0
    /\ lastRun.found # <<>>
    /\ lastRun.selected = lastRun.found[1].defaultProvider
    /\ HasKey(lastRun.found[1].providers, lastRun.selected)

----------------------------------------------------------------------------
(* executeSection: SpecExecute *)

\* the commands for which a process was spawned, in the order of the spawns
Spawned ==
    LET spawns == SelectSeq(calls, LAMBDA c : c.what = "spawn")
    IN [k \in 1..Len(spawns) |-> spawns[k].cmd]

\* the commands whose error was reported
Reported == { calls[k].cmd : k \in { j \in 1..Len(calls) : calls[j].what = "onError" } }

\* C30: executeSection runs the commands one at a time in their order; a
\* command that exits with a non-zero code or cannot be started has its
\* error reported, no later command is run and false is returned; true is
\* returned only when every command succeeded; with dryRun no command is
\* started and true is returned.
C30_ExecuteSection ==
    /\ Spawned = [k \in 1..Len(Spawned) |-> k]
    /\ Len(Spawned) <= cmdIdx
    /\ \A k \in 1..(Len(Spawned) - 1) : commands[k] = "ok"
    /\ Reported = { k \in 1..Len(Spawned) : commands[k] # "ok" }
    /\ dryRun => Spawned = <<>>
    /\ returned = "false" <=> Reported # {}
    /\ returned = "true" =>
         \/ dryRun
         \/ /\ Len(Spawned) = Len(commands)
            /\ \A k \in 1..Len(commands) : commands[k] = "ok"
    /\ (pc = "returned" /\ dryRun) => returned = "true"
    /\ (pc = "returned" /\ ~dryRun) =>
         LET r == executeSection([k \in 1..Len(commands) |-> commands[k] = "ok"])
         IN /\ (returned = "true") = r.ok
            /\ Len(Spawned) = r.ran

\* the second of three commands failed: two were run and false returned
C30_Witness ==
    /\ pc = "returned" /\ returned = "false"
    /\ Len(commands) = 3
    /\ commands[1] = "ok" /\ commands[2] # "ok"
    /\ Spawned = <<1, 2>>
    /\ Reported = { 2 }


====
